---- MODULE Spec2Model ----
(***************************************************************************)
(* Verification model of the Reddit crawler (src/crawler): the parser's    *)
(* record construction, the change-aware PostgreSQL store, the HTTP client *)
(* with retries, the paginated post generator and the crawl orchestrator.  *)
(***************************************************************************)
EXTENDS Integers, Sequences, FiniteSets, TLC

\* ------------------------------------------------------------------ bounds
MaxOps == 3         \* store calls made in one behaviour of SpecStore
MaxFailures == 1    \* persistence failures injected in one behaviour
MaxCalls == 1       \* top-level request() calls in one behaviour of SpecHttp
MaxPages == 2       \* listing pages the server holds in SpecFetch
MaxNesting == 2     \* deepest nesting level of a comment in SpecParse
MaxDepthArg == 2    \* largest max_depth handed to parse_comments_page
MaxWrites == 2      \* upsert calls the concurrent writers make in SpecRace
MaxEdits == 1       \* posts whose score the server changes between crawls
MaxCrawls == 2      \* crawl() invocations in one behaviour of SpecCrawl
MaxBatch == 3       \* children of a listing handed to the parser in SpecBatch

\* ------------------------------------------------------- program constants
SnapshotLen == 500  \* change-log snapshots keep text[:500]
max_retries == 3    \* CrawlerConfig.max_retries
config_max_posts == 100  \* CrawlerConfig.max_posts
PageCap == 100      \* "Reddit max is 100 per page"
comment_depth == 10 \* CrawlerConfig.comment_depth
CheckpointEvery == 10  \* if posts_processed % 10 == 0
min_delay == 2      \* CrawlerConfig.request_delay, RateLimiter.min_delay
retry_delay == 5    \* CrawlerConfig.retry_delay
StartTime == 10     \* time.time() at the client's first call, in seconds

VARIABLES
    include_deleted,  \* RedditParser.include_deleted (config.include_deleted)
    posts,            \* table posts: post_id -> row
    comments,         \* table comments: comment_id -> row
    change_log,       \* table change_log, in insertion order
    stats,            \* RedditDatabase.stats
    now,              \* datetime.utcnow(), a logical clock
    failures,         \* persistence failures injected so far
    last,             \* the last store call: argument, result, store before it
    prev,             \* the store call before the last one
    writers,          \* other RedditDatabase instances on the same tables
    comments_response,  \* the response of a post's permalink: two listings
    depth_arg,        \* the max_depth a caller hands to parse_comments_page
    page_result,      \* what parse_comments_page returned, once it has run
    listing_response,  \* the children of a post listing handed to the parser
    listing_result,   \* what parse_post_listing returned, once it has run
    config_sort_by,   \* CrawlerConfig.sort_by
    sched,            \* the CrawlerScheduler and its start() loop
    http_pc,          \* request(): "idle", "try" (an attempt is due), "returned"
    req,              \* arguments of the request() invocation being executed
    http_trace,       \* attempts of the current top-level call: identity, outcome
    http_result,      \* the HttpResponse the last top-level call returned
    http_stats,       \* RedditHttpClient.stats
    http_calls,       \* top-level request() calls made so far
    clock,            \* time.time(), counted from the start of the last call
    last_request_time,  \* RateLimiter.last_request_time, counted likewise
    server,           \* the listing pages the server holds, page 1 first
    gen,              \* the fetch_posts generator: its locals and what it did
    db_up,            \* whether PostgreSQL accepts connections
    database,         \* RedditCrawler.database: "None", "no_conn", "connected"
    tx_aborted,       \* a statement failed and no rollback followed yet
    crawl_states,     \* table crawl_states: subreddit -> row
    crawl,            \* the crawl() invocation being executed: its locals
    crawl_result,     \* how the last crawl() invocation ended
    ncrawls,          \* crawl() invocations made so far
    saves,            \* the CrawlStates the current crawl() persisted
    twin              \* a second crawler on a database of its own, not running

parse_vars == <<comments_response, depth_arg, page_result, listing_response,
                listing_result>>

sched_vars == <<config_sort_by, sched>>

store_vars == <<include_deleted, twin, parse_vars, sched_vars, posts, comments,
                change_log, stats, now, failures, last, prev, writers>>

http_vars == <<http_pc, req, http_trace, http_result, http_stats, http_calls,
               clock, last_request_time>>

fetch_vars == <<server, gen>>

crawl_vars == <<db_up, database, tx_aborted, crawl_states, crawl,
                crawl_result, ncrawls, saves>>

vars == <<store_vars, http_vars, fetch_vars, crawl_vars>>

\* ------------------------------------------------------------------ inputs
PostIds == {"p1"}
CommentIds == {"c1", "c2"}
Subreddit == "wallstreetbets"
DeletedMarks == {"[deleted]", "[removed]"}

\* Raw "t3" payloads the server can return for a post.
RawPosts ==
    {[id |-> i, author |-> "alice", title |-> "t", selftext |-> "x",
      score |-> s, num_comments |-> n, locked |-> FALSE, created_utc |-> 1]
        : i \in PostIds, s \in {1, 2}, n \in {0, 1}}
    \cup
    {[id |-> i, author |-> "[deleted]", title |-> "t", selftext |-> "x",
      score |-> 1, num_comments |-> 0, locked |-> TRUE, created_utc |-> 1]
        : i \in PostIds}

\* Raw "t1" payloads the server can return for a comment; replies holds the
\* children of the reply listing (empty when there is none).
RawComments ==
    {[id |-> c, author |-> "bob", body |-> "hi", score |-> s,
      parent_id |-> "t3_p1", replies |-> << >>, created_utc |-> 1]
        : c \in CommentIds, s \in {1, 2}}
    \cup
    {[id |-> c, author |-> "bob", body |-> "[removed]", score |-> 1,
      parent_id |-> "t3_p1", replies |-> << >>, created_utc |-> 1]
        : c \in CommentIds}

\* ------------------------------------------------------------------ parser
Min(a, b) == IF a < b THEN a ELSE b

\* text[:n]
Truncate(s, n) == SubSeq(s, 1, Min(n, Len(s)))

\* A hash of the content alone.
content_hash_without_score(content, score) == content

\* md5 is taken as injective on the formatted string "{content}:{score}".
compute_content_hash(content, score) == content \o ":" \o ToString(score)

\* parse_timestamp: None for a missing or zero timestamp (0 stands for None).
parse_timestamp(ts) == IF ts = 0 THEN 0 ELSE ts

\* _is_deleted(author, body); body = "" stands for an absent or empty body.
is_deleted2(author, body) ==
    \/ author \in DeletedMarks
    \/ (body # "" /\ body \in DeletedMarks)

\* _is_deleted(author)
is_deleted1(author) == author \in DeletedMarks

\* dict.get(key, default)
Get(d, key, default) == IF key \in DOMAIN d THEN d[key] ELSE default

\* A JSON value that is not an object (null, a string, a number); objects
\* are records without the field "json".
Null == [json |-> "null"]

\* isinstance(v, dict); on anything else v.get(...) raises AttributeError.
IsDict(v) == "json" \notin DOMAIN v

\* The values of "edited" that float() takes; "" stands for an absent or
\* false value.
Numeric == {"1700000000.0"}

\* float(edited) raises a ValueError.
float_raises(edited) == edited # "" /\ edited \notin Numeric

\* parse_post: << >> is None, <<post>> the Post built at time t. Whatever
\* the body raises is caught and gives None.
parse_post(raw, incl, t) ==
    IF ~IsDict(raw) THEN << >>
    ELSE IF is_deleted2(raw.author, raw.selftext) /\ ~incl
    THEN << >>
    ELSE IF float_raises(Get(raw, "edited", "")) THEN << >>
    ELSE <<[post_id |-> raw.id,
            title |-> raw.title,
            selftext |-> raw.selftext,
            author |-> raw.author,
            score |-> raw.score,
            num_comments |-> raw.num_comments,
            is_deleted |-> is_deleted1(raw.author),
            is_removed |-> (raw.author = "[removed]"),
            locked |-> raw.locked,
            created_utc |-> (IF parse_timestamp(raw.created_utc) # 0
                             THEN parse_timestamp(raw.created_utc) ELSE t),
            fetched_at |-> t,
            last_updated |-> t,
            content_hash |-> compute_content_hash(
                                 raw.title \o ":" \o raw.selftext, raw.score),
            comment_ids |-> << >>,
            comments_fetched_at |-> 0]>>

\* A parent reference taken as it comes.
keep_parent_id(p) == p

\* The "t1_" / "t3_" prefix strip of parse_comment.
normalize_parent_id(p) ==
    IF Len(p) >= 3 /\ SubSeq(p, 1, 3) = "t1_" THEN SubSeq(p, 4, Len(p))
    ELSE IF Len(p) >= 3 /\ SubSeq(p, 1, 3) = "t3_" THEN SubSeq(p, 4, Len(p))
    ELSE p

\* parse_comment: << >> is None, <<comment>> the Comment built at time t.
parse_comment(raw, post_id, subreddit, depth, incl, t) ==
    LET author == Get(raw, "author", "[deleted]")
        body == Get(raw, "body", "")
        score == Get(raw, "score", 0)
        created == parse_timestamp(Get(raw, "created_utc", 0))
    IN
    IF ~IsDict(raw) THEN << >>
    ELSE IF Get(raw, "kind", "") = "more" THEN << >>
    ELSE IF is_deleted2(author, body) /\ ~incl
    THEN << >>
    ELSE IF float_raises(Get(raw, "edited", "")) THEN << >>
    ELSE <<[comment_id |-> Get(raw, "id", ""),
            post_id |-> post_id,
            parent_id |-> normalize_parent_id(Get(raw, "parent_id", "")),
            body |-> body,
            author |-> author,
            score |-> score,
            is_deleted |-> is_deleted2(author, body),
            is_removed |-> (author = "[removed]" \/ body = "[removed]"),
            depth |-> depth,
            reply_count |-> Len(Get(raw, "replies", << >>)),
            created_utc |-> (IF created # 0 THEN created ELSE t),
            fetched_at |-> t,
            last_updated |-> t,
            content_hash |-> compute_content_hash(body, score),
            subreddit |-> subreddit]>>

\* ------------------------------------------------------------------- store
EmptyTable == [k \in {} |-> 0]

ZeroStats == [posts_inserted |-> 0, posts_updated |-> 0,
              comments_inserted |-> 0, comments_updated |-> 0,
              changes_logged |-> 0]

Put(table, k, row) ==
    [x \in DOMAIN table \cup {k} |-> IF x = k THEN row ELSE table[x]]

Outcome(p, c, l, s, changed, action) ==
    [posts |-> p, comments |-> c, change_log |-> l, stats |-> s,
     result |-> [changed |-> changed, action |-> action]]

\* A rollback that leaves the change_log rows of the transaction in place.
rollback_keeps_log(s) ==
    Outcome(posts, comments,
            IF s.changes_logged > stats.changes_logged
            THEN Append(change_log, "kept") ELSE change_log,
            s, FALSE, "error")

\* except Exception: self.conn.rollback(); return False, "error".
\* The tables are as before the call; the in-memory counters are as given.
RolledBack(s) == Outcome(posts, comments, change_log, s, FALSE, "error")

\* The row _log_change inserts into change_log.
log_entry(content_type, content_id, old_value, new_value, t) ==
    [content_type |-> content_type, content_id |-> content_id,
     change_type |-> "content_updated",
     old_value |-> old_value, new_value |-> new_value, changed_at |-> t]

\* The columns INSERT INTO posts writes.
post_insert_row(post, t) ==
    [post_id |-> post.post_id, title |-> post.title,
     selftext |-> post.selftext, author |-> post.author,
     score |-> post.score, num_comments |-> post.num_comments,
     is_deleted |-> post.is_deleted, is_removed |-> post.is_removed,
     locked |-> post.locked, created_utc |-> post.created_utc,
     fetched_at |-> t, first_seen |-> t, last_updated |-> t,
     content_hash |-> post.content_hash,
     comment_ids |-> << >>, comments_fetched_at |-> 0]

\* An UPDATE that rewrites the whole row, first_seen included.
post_update_row_rewrites_first_seen(old, post, t) ==
    [post_insert_row(post, t) EXCEPT !.comment_ids = old.comment_ids,
         !.comments_fetched_at = old.comments_fetched_at,
         !.created_utc = old.created_utc, !.fetched_at = old.fetched_at]

\* The columns UPDATE posts SET ... writes; the others keep what is stored.
post_update_row(old, post, t) ==
    [old EXCEPT !.title = post.title, !.selftext = post.selftext,
                !.author = post.author, !.score = post.score,
                !.num_comments = post.num_comments,
                !.is_deleted = post.is_deleted,
                !.is_removed = post.is_removed,
                !.locked = post.locked, !.last_updated = t,
                !.content_hash = post.content_hash]

\* UPDATE posts SET last_updated = now
post_touch_row(old, t) == [old EXCEPT !.last_updated = t]

\* SELECT ... WHERE post_id / comment_id = id: << >> or <<row>>.
select_row(table, id) == IF id \in DOMAIN table THEN <<table[id]>> ELSE << >>

\* A table without the UNIQUE constraint on its id column.
unique_never_violated(table, id) == FALSE

\* post_id and comment_id are UNIQUE: the INSERT of a stored id raises
\* IntegrityError.
unique_violation(table, id) == id \in DOMAIN table

\* except psycopg2.IntegrityError: self.conn.rollback(); return False,
\* "duplicate".
Duplicate(s) == Outcome(posts, comments, change_log, s, FALSE, "duplicate")

\* The statements a persistence failure can hit after the SELECT returned
\* seen, for content with the given hash.
fail_points(seen, content_hash) ==
    IF seen # << >> /\ seen[1].content_hash # content_hash
    THEN {"select", "log", "write"}
    ELSE {"select", "write"}

\* The statements of upsert_post a persistence failure can hit.
post_fail_points(post) ==
    fail_points(select_row(posts, post.post_id), post.content_hash)

\* upsert_post(post) of an instance with counters s whose SELECT returned
\* seen, the statements after the SELECT run at time t; fail names the
\* statement that fails, if any. A failed change_log INSERT is swallowed by
\* _log_change, but it aborts the transaction, so the UPDATE after it fails
\* and the call ends in "error".
upsert_post_from(post, seen, s, fail, t) ==
    LET id == post.post_id IN
    IF fail = "select" THEN RolledBack(s)
    ELSE IF seen # << >> THEN
        LET existing == seen[1] IN
        IF existing.content_hash # post.content_hash THEN
            LET entry == log_entry("post", id,
                    [content_hash |-> existing.content_hash,
                     score |-> existing.score,
                     num_comments |-> existing.num_comments,
                     selftext |-> Truncate(existing.selftext, SnapshotLen)],
                    [content_hash |-> post.content_hash,
                     score |-> post.score,
                     num_comments |-> post.num_comments,
                     selftext |-> Truncate(post.selftext, SnapshotLen)], t)
                logged == [s EXCEPT !.changes_logged = @ + 1]
            IN  IF fail = "log" THEN RolledBack(s)
                ELSE IF fail = "write" THEN RolledBack(logged)
                ELSE Outcome(Put(posts, id, post_update_row(posts[id], post, t)),
                             comments, Append(change_log, entry),
                             [logged EXCEPT !.posts_updated = @ + 1],
                             TRUE, "updated")
        ELSE IF fail = "write" THEN RolledBack(s)
             ELSE Outcome(Put(posts, id, post_touch_row(posts[id], t)),
                          comments, change_log, s, FALSE, "unchanged")
    ELSE IF fail = "write" THEN RolledBack(s)
         ELSE IF unique_violation(posts, id) THEN Duplicate(s)
         ELSE Outcome(Put(posts, id, post_insert_row(post, t)),
                      comments, change_log,
                      [s EXCEPT !.posts_inserted = @ + 1],
                      TRUE, "inserted")

\* upsert_post(post) at time t with no other writer between its statements.
upsert_post(post, fail, t) ==
    upsert_post_from(post, select_row(posts, post.post_id), stats, fail, t)

\* The columns INSERT INTO comments writes.
comment_insert_row(comment, t) ==
    [comment_id |-> comment.comment_id, post_id |-> comment.post_id,
     parent_id |-> comment.parent_id, body |-> comment.body,
     author |-> comment.author, score |-> comment.score,
     is_deleted |-> comment.is_deleted, is_removed |-> comment.is_removed,
     depth |-> comment.depth, reply_count |-> comment.reply_count,
     created_utc |-> comment.created_utc,
     fetched_at |-> t, first_seen |-> t, last_updated |-> t,
     content_hash |-> comment.content_hash, subreddit |-> comment.subreddit]

\* The columns UPDATE comments SET ... writes.
comment_update_row(old, comment, t) ==
    [old EXCEPT !.post_id = comment.post_id, !.parent_id = comment.parent_id,
                !.body = comment.body, !.author = comment.author,
                !.score = comment.score, !.is_deleted = comment.is_deleted,
                !.is_removed = comment.is_removed, !.depth = comment.depth,
                !.reply_count = comment.reply_count, !.last_updated = t,
                !.content_hash = comment.content_hash,
                !.subreddit = comment.subreddit]

\* A touch that also refreshes fetched_at.
comment_touch_row_refetches(old, t) ==
    [old EXCEPT !.last_updated = t, !.fetched_at = t]

\* UPDATE comments SET last_updated = now
comment_touch_row(old, t) == [old EXCEPT !.last_updated = t]

InSeq(x, s) == \E i \in 1..Len(s) : s[i] = x

\* UPDATE posts SET comment_ids = array_append(...), comments_fetched_at = now
\* WHERE post_id = ... AND NOT (comment_id = ANY(comment_ids))
register_comment(table, comment, t) ==
    IF comment.post_id \in DOMAIN table
       /\ ~InSeq(comment.comment_id, table[comment.post_id].comment_ids)
    THEN Put(table, comment.post_id,
             [table[comment.post_id] EXCEPT
                 !.comment_ids = Append(@, comment.comment_id),
                 !.comments_fetched_at = t])
    ELSE table

\* The statements of upsert_comment a persistence failure can hit; the
\* INSERT branch has the UPDATE of posts.comment_ids as a second statement.
comment_fail_points_from(comment, seen) ==
    fail_points(seen, comment.content_hash)
        \cup (IF seen = << >> THEN {"register"} ELSE {})

comment_fail_points(comment) ==
    comment_fail_points_from(comment,
                             select_row(comments, comment.comment_id))

\* An upsert_comment that appends the comment's id to its post's comment_ids
\* on every successful call, for a comment it already holds as well.
upsert_comment_reregisters(comment, seen, s, fail, t) ==
    LET id == comment.comment_id
        pid == comment.post_id
        appended ==
            IF pid \in DOMAIN posts
            THEN Put(posts, pid,
                     [posts[pid] EXCEPT !.comment_ids = Append(@, id),
                                        !.comments_fetched_at = t])
            ELSE posts
    IN  IF fail # "none" THEN RolledBack(s)
        ELSE IF seen # << >>
        THEN Outcome(appended,
                     Put(comments, id, comment_touch_row(comments[id], t)),
                     change_log, s, FALSE, "unchanged")
        ELSE Outcome(appended,
                     Put(comments, id, comment_insert_row(comment, t)),
                     change_log,
                     [s EXCEPT !.comments_inserted = @ + 1],
                     TRUE, "inserted")

\* upsert_comment(comment), as upsert_post_from.
upsert_comment_from(comment, seen, s, fail, t) ==
    LET id == comment.comment_id IN
    IF fail = "select" THEN RolledBack(s)
    ELSE IF seen # << >> THEN
        LET existing == seen[1] IN
        IF existing.content_hash # comment.content_hash THEN
            LET entry == log_entry("comment", id,
                    [content_hash |-> existing.content_hash,
                     score |-> existing.score,
                     body |-> Truncate(existing.body, SnapshotLen)],
                    [content_hash |-> comment.content_hash,
                     score |-> comment.score,
                     body |-> Truncate(comment.body, SnapshotLen)], t)
                logged == [s EXCEPT !.changes_logged = @ + 1]
            IN  IF fail = "log" THEN RolledBack(s)
                ELSE IF fail = "write" THEN RolledBack(logged)
                ELSE Outcome(posts,
                             Put(comments, id,
                                 comment_update_row(comments[id], comment, t)),
                             Append(change_log, entry),
                             [logged EXCEPT !.comments_updated = @ + 1],
                             TRUE, "updated")
        ELSE IF fail = "write" THEN RolledBack(s)
             ELSE Outcome(posts,
                          Put(comments, id, comment_touch_row(comments[id], t)),
                          change_log, s, FALSE, "unchanged")
    ELSE IF fail = "write" THEN RolledBack(s)
         ELSE IF unique_violation(comments, id) THEN Duplicate(s)
         ELSE IF fail = "register" THEN RolledBack(s)
         ELSE Outcome(register_comment(posts, comment, t),
                      Put(comments, id, comment_insert_row(comment, t)),
                      change_log,
                      [s EXCEPT !.comments_inserted = @ + 1],
                      TRUE, "inserted")

\* upsert_comment(comment) at time t with no other writer between its
\* statements.
upsert_comment(comment, fail, t) ==
    upsert_comment_from(comment, select_row(comments, comment.comment_id),
                        stats, fail, t)

\* ------------------------------------------------------- store call driver
NoCall == [op |-> "none", arg |-> [id |-> ""], fail |-> "none",
           result |-> [changed |-> FALSE, action |-> "none"],
           posts |-> EmptyTable, comments |-> EmptyTable,
           change_log |-> << >>, stats |-> ZeroStats]

Call(op, arg, fail, out) ==
    [op |-> op, arg |-> arg, fail |-> fail, result |-> out.result,
     posts |-> posts, comments |-> comments,
     change_log |-> change_log, stats |-> stats]

\* Two more processes that run upsert calls on the same database, each with
\* its own connection and counters.
Writers == {"w1", "w2"}

\* A writer: "idle" (with the outcome of its last call) or "selected" (its
\* SELECT has returned seen, the statements after it are still to run).
WriterIdle ==
    [pc |-> "idle", op |-> "none", id |-> "", arg |-> << >>, seen |-> << >>,
     fail |-> "none", result |-> [changed |-> FALSE, action |-> "none"],
     stats |-> ZeroStats]

FailChoices(points) ==
    {"none"} \cup (IF failures < MaxFailures THEN points ELSE {})

\* No second crawler is held.
NoTwin == [phase |-> "none"]

StoreEmpty ==
    /\ posts = EmptyTable
    /\ comments = EmptyTable
    /\ change_log = << >>
    /\ stats = ZeroStats
    /\ now = 0
    /\ failures = 0
    /\ last = NoCall
    /\ prev = NoCall
    /\ writers = [w \in Writers |-> WriterIdle]

\* The store after a call whose outcome is out.
Stored(op, arg, fail, out) ==
    /\ posts' = out.posts
    /\ comments' = out.comments
    /\ change_log' = out.change_log
    /\ stats' = out.stats
    /\ prev' = last
    /\ last' = Call(op, arg, fail, out)

Apply(op, arg, fail, out) ==
    /\ Stored(op, arg, fail, out)
    /\ failures' = IF fail = "none" THEN failures ELSE failures + 1

\* A post is parsed from a payload and upserted.
UpsertPost ==
    /\ now < MaxOps
    /\ \E raw \in RawPosts :
         LET parsed == parse_post(raw, include_deleted, now + 1) IN
         /\ Len(parsed) = 1
         /\ \E fail \in FailChoices(post_fail_points(parsed[1])) :
              Apply("upsert_post", parsed[1], fail,
                    upsert_post(parsed[1], fail, now + 1))
    /\ now' = now + 1
    /\ UNCHANGED <<include_deleted, twin, parse_vars, sched_vars, writers, http_vars, fetch_vars, crawl_vars>>

\* A comment is parsed from a payload and upserted.
UpsertComment ==
    /\ now < MaxOps
    /\ \E raw \in RawComments, pid \in PostIds :
         LET parsed == parse_comment(raw, pid, Subreddit, 0,
                                     include_deleted, now + 1) IN
         /\ Len(parsed) = 1
         /\ \E fail \in FailChoices(comment_fail_points(parsed[1])) :
              Apply("upsert_comment", parsed[1], fail,
                    upsert_comment(parsed[1], fail, now + 1))
    /\ now' = now + 1
    /\ UNCHANGED <<include_deleted, twin, parse_vars, sched_vars, writers, http_vars, fetch_vars, crawl_vars>>

\* What the parser dropped: parse_post / parse_comment returned None, the
\* store is not called.
Dropped(op, id, raw) ==
    /\ prev' = last
    /\ last' = Call(op, [id |-> id, author |-> raw.author], "none",
                    [result |-> [changed |-> FALSE, action |-> "dropped"]])
    /\ UNCHANGED <<posts, comments, change_log, stats, failures>>

\* A crawl handles one child of a listing: parse_post, and upsert_post if
\* the parser kept it.
ObservePost ==
    /\ now < MaxOps
    /\ \E raw \in RawPosts :
         LET parsed == parse_post(raw, include_deleted, now + 1) IN
         IF parsed = << >> THEN Dropped("parse_post", raw.id, raw)
         ELSE \E fail \in FailChoices(post_fail_points(parsed[1])) :
                Apply("upsert_post", parsed[1], fail,
                      upsert_post(parsed[1], fail, now + 1))
    /\ now' = now + 1
    /\ UNCHANGED <<include_deleted, twin, parse_vars, sched_vars, writers,
                   http_vars, fetch_vars, crawl_vars>>

\* A crawl handles one child of a comment listing: parse_comment, and
\* upsert_comment if the parser kept it.
ObserveComment ==
    /\ now < MaxOps
    /\ \E raw \in RawComments, pid \in PostIds :
         LET parsed == parse_comment(raw, pid, Subreddit, 0,
                                     include_deleted, now + 1) IN
         IF parsed = << >> THEN Dropped("parse_comment", raw.id, raw)
         ELSE \E fail \in FailChoices(comment_fail_points(parsed[1])) :
                Apply("upsert_comment", parsed[1], fail,
                      upsert_comment(parsed[1], fail, now + 1))
    /\ now' = now + 1
    /\ UNCHANGED <<include_deleted, twin, parse_vars, sched_vars, writers,
                   http_vars, fetch_vars, crawl_vars>>

\* The calls a writer can make: the operation and its parsed argument.
WriterCalls(t) ==
    {[op |-> "upsert_post", arg |-> parse_post(raw, include_deleted, t)[1]] :
        raw \in {r \in RawPosts :
                    Len(parse_post(r, include_deleted, t)) = 1}}
    \cup
    {[op |-> "upsert_comment",
      arg |-> parse_comment(raw, pid, Subreddit, 0, include_deleted, t)[1]] :
        raw \in {r \in RawComments :
                    Len(parse_comment(r, "p1", Subreddit, 0,
                                      include_deleted, t)) = 1},
        pid \in PostIds}

Selected == {w \in Writers : writers[w].pc = "selected"}

\* A writer starts an upsert call and runs its SELECT, which sees the rows
\* committed so far; a SELECT that fails ends the call in "error".
Select(w) ==
    /\ writers[w].pc = "idle"
    /\ now + Cardinality(Selected) < MaxWrites
    /\ \E call \in WriterCalls(now), fail \in FailChoices({"select"}) :
         LET table == IF call.op = "upsert_post" THEN posts ELSE comments
             id == IF call.op = "upsert_post" THEN call.arg.post_id
                   ELSE call.arg.comment_id
             begun == [writers[w] EXCEPT
                          !.op = call.op, !.id = id, !.arg = call.arg,
                          !.fail = fail,
                          !.seen = select_row(table, id)]
         IN /\ writers' =
                 [writers EXCEPT ![w] =
                     IF fail = "select"
                     THEN [begun EXCEPT
                              !.result = RolledBack(begun.stats).result]
                     ELSE [begun EXCEPT
                              !.pc = "selected",
                              !.result = WriterIdle.result]]
            /\ failures' = IF fail = "none" THEN failures ELSE failures + 1
    /\ UNCHANGED <<include_deleted, twin, parse_vars, sched_vars, posts, comments, change_log, stats, now,
                   last, prev, http_vars, fetch_vars, crawl_vars>>

WriterSelects == \E w \in Writers : Select(w)

\* The statements after the SELECT and the commit (or the rollback) of a
\* writer's call.
Write(w) ==
    /\ writers[w].pc = "selected"
    /\ LET me == writers[w]
           points == IF me.op = "upsert_post"
                     THEN fail_points(me.seen, me.arg.content_hash)
                     ELSE comment_fail_points_from(me.arg, me.seen)
       IN \E fail \in FailChoices(points \ {"select"}) :
            LET out == IF me.op = "upsert_post"
                       THEN upsert_post_from(me.arg, me.seen, me.stats,
                                             fail, now + 1)
                       ELSE upsert_comment_from(me.arg, me.seen, me.stats,
                                                fail, now + 1)
            IN /\ posts' = out.posts
               /\ comments' = out.comments
               /\ change_log' = out.change_log
               /\ writers' = [writers EXCEPT ![w] =
                                 [me EXCEPT !.pc = "idle", !.fail = fail,
                                            !.result = out.result,
                                            !.stats = out.stats]]
               /\ failures' = IF fail = "none" THEN failures
                              ELSE failures + 1
    /\ now' = now + 1
    /\ UNCHANGED <<include_deleted, twin, parse_vars, sched_vars, stats, last, prev, http_vars, fetch_vars,
                   crawl_vars>>

WriterWrites == \E w \in Writers : Write(w)

\* ------------------------------------------------------------- fetch_posts
\* A listing child: a live post, a post whose author is deleted, or a child
\* that is not of kind "t3".
LiveChild(id) ==
    [kind |-> "t3",
     data |-> [id |-> id, author |-> "alice", title |-> "t", selftext |-> "x",
               score |-> 1, num_comments |-> 0, locked |-> FALSE,
               created_utc |-> 1]]

DeletedChild(id) ==
    [kind |-> "t3",
     data |-> [id |-> id, author |-> "[deleted]", title |-> "t",
               selftext |-> "x", score |-> 1, num_comments |-> 0,
               locked |-> FALSE, created_utc |-> 1]]

OtherChild(id) == [kind |-> "t5", data |-> [id |-> id]]

\* The children lists a page can hold; n is the page's number.
PageBodies(n) ==
    LET a == "p" \o ToString(n) \o "a"
        b == "p" \o ToString(n) \o "b"
    IN {<< >>, <<LiveChild(a)>>, <<LiveChild(a), LiveChild(b)>>,
        <<DeletedChild(a), LiveChild(b)>>, <<OtherChild(a)>>}

\* data.after: 0 is null, n > 0 is the cursor that leads to page n. A page
\* carries no cursor, the cursor of the next page, or its own cursor again.
Listings ==
    UNION {
        {pages \in [1..n -> [children : UNION {PageBodies(k) : k \in 1..n},
                             after : 0..n]] :
            \A k \in 1..n : /\ pages[k].children \in PageBodies(k)
                            /\ pages[k].after \in {0, k, k + 1}}
        : n \in 1..MaxPages}

\* The listing the server returns for ?after=<cursor>.
listing_page(cursor) ==
    LET k == IF cursor = 0 THEN 1 ELSE cursor IN
    IF k \in DOMAIN server THEN server[k]
    ELSE [children |-> << >>, after |-> 0]

\* The position of the first child that is not an object, on which
\* child.get("kind") raises; Len + 1 when every child is one.
first_not_dict(children) ==
    LET bad == {i \in 1..Len(children) : ~IsDict(children[i])}
    IN  IF bad = {} THEN Len(children) + 1
        ELSE CHOOSE i \in bad : \A j \in bad : i <= j

\* parse_post_listing: the posts of the "t3" children parse_post keeps, in
\* order, and the cursor verbatim. The loop over the children is inside one
\* try: a child on which child.get raises ends the loop, and the posts
\* appended before it are returned.
parse_post_listing(page, incl, t) ==
    LET walked == SubSeq(page.children, 1, first_not_dict(page.children) - 1)
        keep(c) == c.kind = "t3" /\ Len(parse_post(c.data, incl, t)) = 1
        kept == SelectSeq(walked, keep)
    IN [posts |-> [i \in 1..Len(kept) |-> parse_post(kept[i].data, incl, t)[1]],
        after_token |-> page.after]

\* _build_subreddit_url: limit=min(limit, 100) and the cursor, if any.
build_subreddit_url(sort_by, after, limit) ==
    [sort |-> sort_by, limit |-> Min(limit, PageCap), after |-> after]

\* max_posts = max_posts or self.config.max_posts
effective_max_posts(m) == IF m = 0 THEN config_max_posts ELSE m

GenIdle == [pc |-> "idle", sort_by |-> "", arg_max_posts |-> 0, max_posts |-> 0,
            after_token |-> 0, posts_fetched |-> 0, buf |-> << >>,
            requests |-> << >>, yielded |-> << >>, error |-> FALSE]

\* sort_by = sort_by or self.config.sort_by; "" is None.
effective_sort_by(s) == IF s = "" THEN config_sort_by ELSE s

\* fetch_posts(subreddit, max_posts) up to its while loop; crawl() hands
\* fetch_posts no sort_by.
gen_start(m) ==
    [GenIdle EXCEPT !.pc = "loop", !.arg_max_posts = m,
                    !.sort_by = effective_sort_by(""),
                    !.max_posts = effective_max_posts(m)]

\* while posts_fetched < max_posts
loop_continues(g) == g.posts_fetched < g.max_posts

\* The request of one loop iteration.
gen_request(g) ==
    build_subreddit_url(g.sort_by, g.after_token,
                        Min(g.max_posts - g.posts_fetched, PageCap))

\* One loop iteration up to its for loop, the page having been fetched.
gen_page(g, incl, t) ==
    LET r == gen_request(g)
        parsed == parse_post_listing(listing_page(r.after), incl, t)
        asked == [g EXCEPT !.requests = Append(@, r),
                           !.after_token = parsed.after_token]
    IN IF parsed.posts = << >>
       THEN [asked EXCEPT !.pc = "done"]
       ELSE [asked EXCEPT !.pc = "yield", !.buf = parsed.posts]

\* An error that is logged without leaving the while loop.
gen_error_goes_on(g) ==
    [g EXCEPT !.requests = Append(@, gen_request(g)), !.error = TRUE]

\* One loop iteration whose get_json returned an error: break.
gen_error(g) ==
    [g EXCEPT !.requests = Append(@, gen_request(g)),
              !.pc = "done", !.error = TRUE]

\* The while condition is false: the generator returns.
gen_stop(g) == [g EXCEPT !.pc = "done"]

\* A page end that always breaks, whatever the cursor.
after_page_ignores_cursor(g) == [g EXCEPT !.pc = "done", !.buf = << >>]

\* if not after_token: break, else back to the while condition.
after_page(g) ==
    IF g.after_token = 0 THEN [g EXCEPT !.pc = "done", !.buf = << >>]
    ELSE [g EXCEPT !.pc = "loop", !.buf = << >>]

\* One step of "for post in posts": yield the next post, or leave the loop
\* when the page is used up or max_posts is reached.
gen_yield(g) ==
    IF g.buf = << >> \/ g.posts_fetched >= g.max_posts
    THEN after_page(g)
    ELSE [g EXCEPT !.yielded = Append(@, Head(g.buf).post_id),
                   !.buf = Tail(@),
                   !.posts_fetched = @ + 1]

FetchIdle ==
    /\ server = << >>
    /\ gen = GenIdle

MaxPostsArgs == {0, 1, 2, 150}

\* A caller starts fetch_posts(max_posts = m).
FetchPostsCall ==
    /\ gen.pc = "idle"
    /\ \E m \in MaxPostsArgs : gen' = gen_start(m)
    /\ UNCHANGED <<server, store_vars, http_vars, crawl_vars>>

\* The loop fetches and parses the next page.
FetchListingPage ==
    /\ gen.pc = "loop"
    /\ loop_continues(gen)
    /\ gen' = gen_page(gen, include_deleted, now)
    /\ UNCHANGED <<server, store_vars, http_vars, crawl_vars>>

\* The loop's request ends in a transport error.
FetchListingError ==
    /\ gen.pc = "loop"
    /\ loop_continues(gen)
    /\ gen' = gen_error(gen)
    /\ UNCHANGED <<server, store_vars, http_vars, crawl_vars>>

\* The while condition fails.
FetchLoopExit ==
    /\ gen.pc = "loop"
    /\ ~loop_continues(gen)
    /\ gen' = gen_stop(gen)
    /\ UNCHANGED <<server, store_vars, http_vars, crawl_vars>>

\* The for loop over the page's posts takes a step.
YieldPost ==
    /\ gen.pc = "yield"
    /\ gen' = gen_yield(gen)
    /\ UNCHANGED <<server, store_vars, http_vars, crawl_vars>>

\* ------------------------------------------------------------ HTTP client
ZeroHttpStats == [requests |-> 0, successful |-> 0, failed |-> 0,
                  retries |-> 0, rate_limited |-> 0]

NoRequest == [url |-> "", method |-> "GET", params |-> "", headers |-> "",
              retry_count |-> 0]

NoResponse == [status_code |-> 0, error |-> "None", json_data |-> FALSE]

HttpIdle ==
    /\ http_pc = "idle"
    /\ req = NoRequest
    /\ http_trace = << >>
    /\ http_result = NoResponse
    /\ http_stats = ZeroHttpStats
    /\ http_calls = 0
    /\ clock = 0
    /\ last_request_time = 0 - StartTime

Urls == {"/r/wallstreetbets/new.json?limit=100"}
Params == {"raw_json=1"}

\* HttpResponse.is_success
is_success(r) == 200 <= r.status_code /\ r.status_code < 300

\* HttpResponse.is_rate_limited
is_rate_limited(r) == r.status_code = 429

\* What conn.request(method.value, path, headers=request_headers) sends.
Identity(r) == [url |-> r.url, method |-> r.method, params |-> r.params,
                headers |-> r.headers]

\* A budget check that allows one retry too many.
may_retry_once_more(retry_count) == retry_count <= max_retries

\* if retry_count < self.max_retries
may_retry(retry_count) == retry_count < max_retries

\* return self.request(url, method, params, headers, retry_count + 1)
retry(r) == [r EXCEPT !.retry_count = @ + 1]

\* A terminal response that drops the exception text.
exception_response_without_error(msg) ==
    [status_code |-> 0, error |-> "None", json_data |-> FALSE]

\* return HttpResponse(status_code=0, headers={}, body="", error=str(e))
exception_response(msg) ==
    [status_code |-> 0, error |-> msg, json_data |-> FALSE]

Bump(field) == [http_stats EXCEPT ![field] = @ + 1]
Bump2(f, g) == [http_stats EXCEPT ![f] = @ + 1, ![g] = @ + 1]
Bump3(f, g, h) == [http_stats EXCEPT ![f] = @ + 1, ![g] = @ + 1, ![h] = @ + 1]

\* _parse_response: the response as read, or, when reading it raised, the
\* status code with the exception text as error.
parse_response(status, readable, json) ==
    IF readable
    THEN [status_code |-> status, error |-> "None", json_data |-> json]
    ELSE [status_code |-> status, error |-> "read failed", json_data |-> FALSE]

\* A wait that returns at once.
wait_if_needed_returns_at_once(t) == t

\* RateLimiter.wait_if_needed called at time t: the time at which it returns,
\* time.sleep taking the time it is asked for and no more.
wait_if_needed(t) ==
    IF t - last_request_time < min_delay
    THEN t + (min_delay - (t - last_request_time))
    ELSE t

\* The Retry-After headers a 429 can carry in seconds; NoHeader is none. The
\* header is left open where it is used: on a 429 that is retried.
NoHeader == -1
RetryAfters(used) == IF used THEN {NoHeader, 0, 30} ELSE {NoHeader}

\* Whether the body of a response could be read is left open where the
\* response is returned or its headers are used; a response that is thrown
\* away counts as read.
Readable(used) == IF used THEN BOOLEAN ELSE {TRUE}

\* float(result.headers.get("retry-after", self.retry_delay * 2)); the
\* headers of a response that could not be read are {}.
retry_after(readable, header) ==
    IF readable /\ header # NoHeader THEN header ELSE retry_delay * 2

\* The attempt is recorded: what was sent and when, whether it was sent at
\* all, when the request before it was sent, how it ended, whether a
\* response was read, its Retry-After header.
Attempted(outcome, read, sent, header) ==
    http_trace' = Append(http_trace,
                         [identity |-> Identity(req), outcome |-> outcome,
                          read |-> read, sent |-> sent,
                          at |-> wait_if_needed(clock),
                          since |-> last_request_time,
                          retry_after |-> header])

\* conn.request(...) went out; rate_limiter.record_request().
Dispatched == last_request_time' = wait_if_needed(clock)

\* return result: the time is that of the attempt.
Return(resp) ==
    /\ http_pc' = "returned"
    /\ http_result' = resp
    /\ clock' = wait_if_needed(clock)
    /\ UNCHANGED req

\* time.sleep(delay); return self.request(..., retry_count + 1)
Retry(delay) ==
    /\ http_pc' = "try"
    /\ req' = retry(req)
    /\ clock' = wait_if_needed(clock) + delay
    /\ UNCHANGED http_result

\* Times are counted from the start of the call being made: at time t the
\* clock is set back to 0 and the time of the last request with it, which
\* changes no difference between two times.
rebased(t) ==
    /\ clock' = 0
    /\ last_request_time' = last_request_time - t

\* The time the caller lets pass before its next call.
Gaps == IF http_pc = "idle" THEN {0} ELSE {0, 1}

\* A caller invokes request(url, method, params, headers) with retry_count 0.
HttpRequest ==
    /\ http_pc \in {"idle", "returned"}
    /\ http_calls < MaxCalls
    /\ \E u \in Urls, q \in Params :
         req' = [url |-> u, method |-> "GET", params |-> q,
                 headers |-> "", retry_count |-> 0]
    /\ \E gap \in Gaps : rebased(clock + gap)
    /\ http_pc' = "try"
    /\ http_trace' = << >>
    /\ http_calls' = http_calls + 1
    /\ UNCHANGED <<http_result, http_stats, store_vars, fetch_vars, crawl_vars>>

\* The attempt gets a 2xx response, with or without a JSON body.
RespondSuccess ==
    /\ http_pc = "try"
    /\ Dispatched
    /\ http_stats' = Bump2("requests", "successful")
    /\ \E readable \in BOOLEAN, json \in BOOLEAN :
         /\ readable \/ ~json
         /\ Attempted("2xx", readable, TRUE, NoHeader)
         /\ Return(parse_response(200, readable, json))
    /\ UNCHANGED <<http_calls, store_vars, fetch_vars, crawl_vars>>

\* The attempt gets a 4xx response other than 429: no retry.
RespondClientError ==
    /\ http_pc = "try"
    /\ Dispatched
    /\ http_stats' = Bump2("requests", "failed")
    /\ \E readable \in BOOLEAN :
         /\ Attempted("4xx", readable, TRUE, NoHeader)
         /\ Return(parse_response(404, readable, FALSE))
    /\ UNCHANGED <<http_calls, store_vars, fetch_vars, crawl_vars>>

\* The attempt gets a 429: sleep Retry-After and retry while the budget
\* lasts, else the 429 response is returned as it is.
RespondRateLimited ==
    /\ http_pc = "try"
    /\ Dispatched
    /\ \E readable \in Readable(TRUE),
          header \in RetryAfters(may_retry(req.retry_count)) :
         /\ readable \/ header # 0
         /\ Attempted("429", readable, TRUE, header)
         /\ IF may_retry(req.retry_count)
            THEN /\ http_stats' = Bump2("requests", "rate_limited")
                 /\ Retry(retry_after(readable, header))
            ELSE /\ http_stats' = Bump3("requests", "rate_limited", "failed")
                 /\ Return(parse_response(429, readable, FALSE))
    /\ UNCHANGED <<http_calls, store_vars, fetch_vars, crawl_vars>>

\* The attempt gets a 5xx: sleep retry_delay and retry while the budget
\* lasts, else the 5xx response is returned as it is.
RespondServerError ==
    /\ http_pc = "try"
    /\ Dispatched
    /\ \E readable \in Readable(~may_retry(req.retry_count)) :
         /\ Attempted("5xx", readable, TRUE, NoHeader)
         /\ IF may_retry(req.retry_count)
            THEN /\ http_stats' = Bump2("requests", "retries")
                 /\ Retry(retry_delay)
            ELSE /\ http_stats' = Bump2("requests", "failed")
                 /\ Return(parse_response(503, readable, FALSE))
    /\ UNCHANGED <<http_calls, store_vars, fetch_vars, crawl_vars>>

\* The attempt raises (connection failure or timeout): before the request
\* went out, which leaves the rate limiter as it was, or after.
RaiseException ==
    /\ http_pc = "try"
    /\ \E sent \in BOOLEAN :
         LET counted == IF sent THEN Bump2("requests", "failed")
                        ELSE Bump("failed")
         IN /\ Attempted("exception", FALSE, sent, NoHeader)
            /\ IF sent THEN Dispatched
               ELSE UNCHANGED last_request_time
            /\ IF may_retry(req.retry_count)
               THEN /\ http_stats' = [counted EXCEPT !.retries = @ + 1]
                    /\ Retry(retry_delay)
               ELSE /\ http_stats' = counted
                    /\ Return(exception_response("timed out"))
    /\ UNCHANGED <<http_calls, store_vars, fetch_vars, crawl_vars>>

\* ------------------------------------------------------------------- crawl
\* CrawlerConfig.fetch_all_comments
fetch_all_comments == TRUE

\* CrawlState(subreddit=subreddit) built at time t; "None" is None.
NewCrawlState(subreddit, t) ==
    [subreddit |-> subreddit, last_post_id |-> "None", after_token |-> "None",
     posts_crawled |-> 0, comments_crawled |-> 0,
     started_at |-> t, last_activity |-> t, is_complete |-> FALSE]

\* get_crawl_state: << >> is None, <<state>> the stored row as a CrawlState.
get_crawl_state(subreddit) ==
    IF subreddit \in DOMAIN crawl_states THEN <<crawl_states[subreddit]>>
    ELSE << >>

\* save_crawl_state: INSERT ... ON CONFLICT (subreddit) DO UPDATE, which sets
\* every column but started_at.
save_crawl_state(state) ==
    IF state.subreddit \in DOMAIN crawl_states
    THEN Put(crawl_states, state.subreddit,
             [state EXCEPT
                 !.started_at = crawl_states[state.subreddit].started_at])
    ELSE Put(crawl_states, state.subreddit, state)

\* A reset that empties the table.
reset_all_crawl_states(subreddit) == EmptyTable

\* reset_crawl_state: DELETE FROM crawl_states WHERE subreddit = ...
reset_crawl_state(subreddit) ==
    [k \in DOMAIN crawl_states \ {subreddit} |-> crawl_states[k]]

\* The sources whose crawl state is kept.
Sources == {Subreddit, "stocks"}

\* A caller saves the CrawlState of a source with the counts it has.
SaveCrawlState ==
    /\ now < MaxOps
    /\ \E src \in Sources, done \in BOOLEAN :
         LET state == [NewCrawlState(src, now + 1) EXCEPT
                          !.posts_crawled = Cardinality(DOMAIN posts),
                          !.comments_crawled = Cardinality(DOMAIN comments),
                          !.is_complete = done]
         IN /\ crawl_states' = save_crawl_state(state)
            /\ prev' = last
            /\ last' = Call("save_crawl_state", [id |-> src], "none",
                            [result |-> [changed |-> TRUE,
                                         action |-> "saved"]])
    /\ now' = now + 1
    /\ UNCHANGED <<posts, comments, change_log, stats, failures,
                   include_deleted, twin, parse_vars, sched_vars, writers,
                   http_vars, fetch_vars, db_up, database, tx_aborted, crawl,
                   crawl_result, ncrawls, saves>>

\* main.py --reset-state: reset_crawl_state(subreddit).
ResetCrawlState ==
    /\ now < MaxOps
    /\ \E src \in Sources :
         /\ crawl_states' = reset_crawl_state(src)
         /\ prev' = last
         /\ last' = Call("reset_crawl_state", [id |-> src], "none",
                         [result |-> [changed |-> src \in DOMAIN crawl_states,
                                      action |-> "reset"]])
    /\ now' = now + 1
    /\ UNCHANGED <<posts, comments, change_log, stats, failures,
                   include_deleted, twin, parse_vars, sched_vars, writers,
                   http_vars, fetch_vars, db_up, database, tx_aborted, crawl,
                   crawl_result, ncrawls, saves>>

\* A statement issued on the connection raises: there is no connection, or a
\* failed statement left the transaction aborted.
StatementRaises == database = "no_conn" \/ tx_aborted

\* A statement may be made to fail while the failure budget lasts.
MayInject == failures < MaxFailures

\* The comment listing: "t1" children with their reply children, "more" stubs.
MoreChild == [kind |-> "more", data |-> [id |-> "m1"]]

CommentChild(id, parent, body, replies) ==
    [kind |-> "t1",
     data |-> [id |-> id, author |-> "bob", body |-> body, score |-> 1,
               parent_id |-> parent, replies |-> replies, created_utc |-> 1]]

\* The comment children the server returns for a post's permalink.
comments_page(post_id) ==
    IF post_id = "p1a"
    THEN <<CommentChild("c1", "t3_p1a", "hi",
                        <<CommentChild("c2", "t1_c1", "yo", << >>),
                          MoreChild>>),
           CommentChild("c3", "t3_p1a", "[removed]", << >>),
           CommentChild("c4", "t3_p1a", "ok", << >>)>>
    ELSE << >>

\* A walk that takes every child for a comment.
any_child_is_comment(kind) == TRUE

\* kind == "more" is skipped, kind == "t1" is parsed, any other kind ignored.
is_comment_kind(kind) == kind # "more" /\ kind = "t1"

\* A tree walk that puts a comment's replies after its later siblings.
RECURSIVE parse_tree_replies_last(_, _, _, _, _, _, _)
parse_tree_replies_last(children, post_id, subreddit, depth, max_depth, incl, t) ==
    IF depth > max_depth \/ children = << >> THEN << >>
    ELSE LET child == Head(children)
             rest == parse_tree_replies_last(Tail(children), post_id,
                                             subreddit, depth, max_depth,
                                             incl, t)
         IN  IF child.kind # "t1" THEN rest
             ELSE LET c == parse_comment(child.data, post_id, subreddit,
                                         depth, incl, t)
                  IN  IF c = << >> THEN rest
                      ELSE c \o rest
                             \o parse_tree_replies_last(
                                    child.data.replies, post_id, subreddit,
                                    depth + 1, max_depth, incl, t)

\* _parse_comment_tree: depth-first, parents before their replies.
RECURSIVE parse_comment_tree(_, _, _, _, _, _, _)
parse_comment_tree(children, post_id, subreddit, depth, max_depth, incl, t) ==
    IF depth > max_depth \/ children = << >> THEN << >>
    ELSE LET child == Head(children)
             rest == parse_comment_tree(Tail(children), post_id, subreddit,
                                        depth, max_depth, incl, t)
         IN  IF ~is_comment_kind(child.kind) THEN rest
             ELSE LET c == parse_comment(child.data, post_id, subreddit,
                                         depth, incl, t)
                  IN  IF c = << >> THEN rest
                      ELSE c \o parse_comment_tree(
                                    Get(child.data, "replies", << >>),
                                    post_id, subreddit, depth + 1,
                                    max_depth, incl, t)
                             \o rest

\* A page that returns the comments of one level more than asked for.
comments_page_one_deeper(response, post_id, subreddit, max_depth, incl, t) ==
    IF Len(response) < 2 THEN [post |-> << >>, comments |-> << >>]
    ELSE [post |-> << >>,
          comments |-> parse_comment_tree(response[2].children, post_id,
                                          subreddit, 0, max_depth + 1,
                                          incl, t)]

RECURSIVE tree_raises(_, _, _, _, _, _, _)
\* _parse_comment_tree raises: the walk comes to a child that is not an
\* object, at the top level or among the replies it descends into.
tree_raises(children, post_id, subreddit, depth, max_depth, incl, t) ==
    IF depth > max_depth \/ children = << >> THEN FALSE
    ELSE LET child == Head(children)
         IN  \/ ~IsDict(child)
             \/ /\ IsDict(child)
                /\ is_comment_kind(child.kind)
                /\ parse_comment(child.data, post_id, subreddit, depth, incl,
                                 t) # << >>
                /\ tree_raises(Get(child.data, "replies", << >>), post_id,
                               subreddit, depth + 1, max_depth, incl, t)
             \/ /\ IsDict(child)
                /\ tree_raises(Tail(children), post_id, subreddit, depth,
                               max_depth, incl, t)

\* parse_comments_page: (None, []) for a response of fewer than two listings,
\* else the post of the first listing and the comment tree of the second.
\* The body is one try: when the walk of the tree raises, comments is still
\* the empty list it was initialised to.
parse_comments_page(response, post_id, subreddit, max_depth, incl, t) ==
    IF Len(response) < 2 THEN [post |-> << >>, comments |-> << >>]
    ELSE IF response[1].children # << >> /\ ~IsDict(response[1].children[1])
    THEN [post |-> << >>, comments |-> << >>]
    ELSE [post |-> IF response[1].children = << >> THEN << >>
                   ELSE parse_post(response[1].children[1].data, incl, t),
          comments |-> IF tree_raises(response[2].children, post_id,
                                      subreddit, 0, max_depth, incl, t)
                       THEN << >>
                       ELSE parse_comment_tree(response[2].children, post_id,
                                               subreddit, 0, max_depth, incl,
                                               t)]

\* --------------------------------------------------- parse_comments_page
\* The post whose permalink is asked for.
PagePost == "p1"

\* A "more" stub, and a "t1" child whose data is tagged "more".
MoreStub(id, parent) ==
    [kind |-> "more", data |-> [id |-> id, parent_id |-> parent]]

TaggedMore(id, parent) ==
    [kind |-> "t1", data |-> [kind |-> "more", id |-> id, parent_id |-> parent]]

\* The id of the i-th child under parent ("" is the post).
ChildId(parent, i) ==
    IF parent = "" THEN "c" \o ToString(i) ELSE parent \o ToString(i)

\* The raw parent reference of a child: the forum's reference to the node it
\* is nested under; a nested child may also carry the post's reference.
ParentRef(parent) == IF parent = "" THEN "t3_" \o PagePost ELSE "t1_" \o parent

Refs(parent) == {ParentRef(parent), "t3_" \o PagePost}

\* The children lists a listing at nesting level n under parent can hold: at
\* most two children, the second without replies; a child is a comment, a
\* removed comment (with one reply where the level allows it) or a stub.
RECURSIVE CommentLists(_, _)
Leaves(parent, id) ==
    {CommentChild(id, r, "hi", << >>) : r \in Refs(parent)}
    \cup {CommentChild(id, ParentRef(parent), "[removed]", << >>),
          MoreStub(id, ParentRef(parent)),
          TaggedMore(id, ParentRef(parent))}

Inner(n, parent, id) ==
    IF n >= MaxNesting THEN {}
    ELSE {CommentChild(id, r, "hi", rs) :
             r \in Refs(parent), rs \in CommentLists(n + 1, id) \ {<< >>}}
         \cup
         {CommentChild(id, ParentRef(parent), "[removed]",
                       <<CommentChild(ChildId(id, 1), ParentRef(id), "hi",
                                      << >>)>>)}

CommentLists(n, parent) ==
    LET a == ChildId(parent, 1)
        b == ChildId(parent, 2)
        first == Leaves(parent, a) \cup Inner(n, parent, a)
        second == {CommentChild(b, ParentRef(parent), "hi", << >>),
                   MoreStub(b, ParentRef(parent))}
    IN  {<< >>} \cup {<<x>> : x \in first}
        \cup {<<x, y>> : x \in first, y \in second}

\* The responses of the permalink: no listing at all, or the post's listing
\* and a comment listing.
CommentResponses ==
    {<< >>}
    \cup {<<[children |-> <<LiveChild(PagePost)>>], [children |-> cs]>> :
             cs \in CommentLists(0, "")}

NotParsed == [done |-> FALSE, post |-> << >>, comments |-> << >>]

NoListing == [children |-> << >>, after |-> 0]

ListingNotParsed == [done |-> FALSE, posts |-> << >>, after_token |-> 0]

ParserIdle ==
    /\ comments_response = << >>
    /\ depth_arg = comment_depth
    /\ page_result = NotParsed
    /\ listing_response = NoListing
    /\ listing_result = ListingNotParsed

\* parse_comments_page(response_data, post_id, subreddit, max_depth)
ParseCommentsPage ==
    /\ ~page_result.done
    /\ LET out == parse_comments_page(comments_response, PagePost, Subreddit,
                                      depth_arg, include_deleted, now)
       IN page_result' = [done |-> TRUE, post |-> out.post,
                          comments |-> out.comments]
    /\ UNCHANGED <<include_deleted, twin, comments_response, depth_arg,
                   listing_response, listing_result, sched_vars, posts,
                   comments, change_log, stats, now, failures, last, prev,
                   writers, http_vars, fetch_vars, crawl_vars>>

\* parse_post_listing(response_data)
ParsePostListing ==
    /\ ~listing_result.done
    /\ LET out == parse_post_listing(listing_response, include_deleted, now)
       IN listing_result' = [done |-> TRUE, posts |-> out.posts,
                             after_token |-> out.after_token]
    /\ UNCHANGED <<include_deleted, twin, comments_response, depth_arg, page_result,
                   listing_response, sched_vars, posts, comments, change_log,
                   stats, now, failures, last, prev, writers, http_vars,
                   fetch_vars, crawl_vars>>

\* ------------------------------------------------ batches with bad items
\* What the i-th child of a post listing can be: a post, a post whose
\* "edited" is not a number, a child whose "data" is null, or a child that is
\* itself null.
PostItemKinds == {"good", "bad_data", "null_data", "not_dict"}

PostItem(kind, i) ==
    LET id == "b" \o ToString(i)
    IN  CASE kind = "good" -> LiveChild(id)
          [] kind = "bad_data" ->
                [kind |-> "t3",
                 data |-> [id |-> id, author |-> "alice", title |-> "t",
                           selftext |-> "x", score |-> 1, num_comments |-> 0,
                           locked |-> FALSE, created_utc |-> 1,
                           edited |-> "yesterday"]]
          [] kind = "null_data" -> [kind |-> "t3", data |-> Null]
          [] OTHER -> Null

\* What the i-th top-level child of a comment listing can be: the same four,
\* a comment with one reply, and a comment whose only reply is null.
CommentItemKinds ==
    {"good", "bad_data", "null_data", "not_dict", "good_with_reply",
     "reply_not_dict"}

CommentItem(kind, i) ==
    LET id == "k" \o ToString(i)
        ref == "t3_" \o PagePost
    IN  CASE kind = "good" -> CommentChild(id, ref, "hi", << >>)
          [] kind = "bad_data" ->
                [kind |-> "t1",
                 data |-> [id |-> id, author |-> "bob", body |-> "hi",
                           score |-> 1, parent_id |-> ref, replies |-> << >>,
                           created_utc |-> 1, edited |-> "yesterday"]]
          [] kind = "null_data" -> [kind |-> "t1", data |-> Null]
          [] kind = "good_with_reply" ->
                CommentChild(id, ref, "hi",
                             <<CommentChild(id \o "r", "t1_" \o id, "yo",
                                            << >>)>>)
          [] kind = "reply_not_dict" -> CommentChild(id, ref, "hi", <<Null>>)
          [] OTHER -> Null

\* The batches of one to MaxBatch children.
BatchShapes(kinds) == UNION {[1..n -> kinds] : n \in 1..MaxBatch}

BatchListings ==
    {[children |-> [i \in DOMAIN ks |-> PostItem(ks[i], i)], after |-> 0] :
        ks \in BatchShapes(PostItemKinds)}

BatchResponses ==
    {<<[children |-> <<LiveChild(PagePost)>>],
       [children |-> [i \in DOMAIN ks |-> CommentItem(ks[i], i)]]>> :
        ks \in BatchShapes(CommentItemKinds)}

\* fetch_comments(post) whose get_json succeeded.
fetch_comments(post, incl, t) ==
    parse_comment_tree(comments_page(post.post_id), post.post_id, Subreddit,
                       0, comment_depth, incl, t)

\* The listings the server holds in a crawl: two pages, the first with a
\* deleted post and the second with a cursor to an empty page, or one page
\* of ten posts.
TenPosts == [i \in 1..CheckpointEvery |-> LiveChild("q" \o ToString(i))]

CrawlListings ==
    {<<[children |-> <<LiveChild("p1a"), DeletedChild("p1b")>>, after |-> 2],
       [children |-> <<LiveChild("p2a")>>, after |-> 3]>>,
     <<[children |-> TenPosts, after |-> 0]>>}

CrawlMaxPostsArgs == {0, 2}

\* The locals of crawl(); post is << >> or <<post>>, cbuf the comments of the
\* post that are still to be upserted.
CrawlLocalsIdle ==
    [pc |-> "idle", resume |-> FALSE, fetch_comments |-> FALSE,
     max_posts |-> 0, crawl_state |-> NewCrawlState(Subreddit, 0),
     posts_processed |-> 0, comments_processed |-> 0, errors |-> << >>,
     post |-> << >>, cbuf |-> << >>, comment_requests |-> << >>,
     events |-> << >>, before |-> [posts |-> EmptyTable, logged |-> 0]]

\* What the crawl did, in order: the store calls and the comment fetches.
Event(kind, id, action) == [kind |-> kind, id |-> id, action |-> action]

NoResult ==
    [status |-> "none", posts_fetched |-> 0, posts_inserted |-> 0,
     posts_updated |-> 0, comments_fetched |-> 0, comments_inserted |-> 0,
     comments_updated |-> 0, errors |-> << >>]

\* The CrawlResult of a failed connect.
FatalResult ==
    [NoResult EXCEPT !.status = "returned",
                     !.errors = <<"Failed to connect to database">>]

\* crawl() left by an exception no handler caught.
RaisedResult == [NoResult EXCEPT !.status = "raised"]

\* A CrawlResult that reports the posts the store saw as updated.
crawl_return_all_updated(c, db_stats) ==
    [status |-> "returned",
     posts_fetched |-> c.posts_processed,
     posts_inserted |-> db_stats.posts_updated,
     posts_updated |-> db_stats.posts_inserted + db_stats.posts_updated,
     comments_fetched |-> c.comments_processed,
     comments_inserted |-> db_stats.comments_inserted,
     comments_updated |-> db_stats.comments_updated,
     errors |-> c.errors]

\* The CrawlResult built after get_stats.
crawl_return(c, db_stats) ==
    [status |-> "returned",
     posts_fetched |-> c.posts_processed,
     posts_inserted |-> db_stats.posts_inserted,
     posts_updated |-> db_stats.posts_updated,
     comments_fetched |-> c.comments_processed,
     comments_inserted |-> db_stats.comments_inserted,
     comments_updated |-> db_stats.comments_updated,
     errors |-> c.errors]

CrawlIdle ==
    /\ db_up = TRUE
    /\ database = "None"
    /\ tx_aborted = FALSE
    /\ crawl_states = EmptyTable
    /\ crawl = CrawlLocalsIdle
    /\ crawl_result = NoResult
    /\ ncrawls = 0
    /\ saves = << >>

\* What a save that succeeded persisted.
Saved(kind, state) ==
    [kind |-> kind, is_complete |-> state.is_complete,
     posts_crawled |-> state.posts_crawled]

\* except Exception: errors.append(f"Crawl error: ..."), then past the try.
crawl_error(c) ==
    [c EXCEPT !.errors = Append(@, "Crawl error"), !.pc = "after_try"]

\* The generator is dropped before it is exhausted.
gen_close(g) == [g EXCEPT !.pc = "closed"]

\* The children of the listing whose score the server has changed.
Edited ==
    {x \in {<<k, i>> : k \in 1..Len(server), i \in 1..CheckpointEvery} :
        /\ x[2] <= Len(server[x[1]].children)
        /\ server[x[1]].children[x[2]].data.score # 1}

\* Between two crawls the score of a post of the listing changes on the
\* server: one of the first two children of a page.
ServerScoreChanges ==
    /\ crawl.pc = "idle"
    /\ ncrawls \in 1..(MaxCrawls - 1)
    /\ Cardinality(Edited) < MaxEdits
    /\ \E k \in 1..Len(server), i \in 1..2 :
         /\ i <= Len(server[k].children)
         /\ <<k, i>> \notin Edited
         /\ server' = [server EXCEPT ![k].children[i].data.score = 2]
    /\ UNCHANGED <<gen, store_vars, http_vars, crawl_vars>>

\* crawl() while no connection can be made and none was tried before:
\* connect_database() leaves self.database set and returns False.
CrawlConnectFails ==
    /\ crawl.pc = "idle"
    /\ ncrawls < MaxCrawls
    /\ database = "None"
    /\ ~db_up
    /\ database' = "no_conn"
    /\ crawl_result' = FatalResult
    /\ ncrawls' = ncrawls + 1
    /\ saves' = << >>
    /\ gen' = GenIdle
    /\ UNCHANGED <<db_up, tx_aborted, crawl_states, crawl, server,
                   store_vars, http_vars>>

\* A reset that leaves the counters as they are.
database_reset_stats_keeps(s) == s

\* RedditDatabase.reset_stats: self.stats = {every counter: 0}.
database_reset_stats(s) == ZeroStats

\* A crawl() whose resume finds the stored crawl complete and fetches
\* nothing.
crawl_starts_skips_complete(m, fc, r) ==
    /\ database # "None" \/ db_up
    /\ r => ~StatementRaises
    /\ LET loaded == IF r THEN get_crawl_state(Subreddit) ELSE << >>
           state == IF loaded # << >> THEN loaded[1]
                    ELSE NewCrawlState(Subreddit, now)
       IN /\ crawl' = [CrawlLocalsIdle EXCEPT
                          !.before = [posts |-> posts,
                                      logged |-> Len(change_log)],
                          !.pc = "loop", !.resume = r,
                          !.fetch_comments = fc,
                          !.max_posts = effective_max_posts(m),
                          !.crawl_state = state]
          /\ gen' = IF state.is_complete
                    THEN gen_stop(gen_start(effective_max_posts(m)))
                    ELSE gen_start(effective_max_posts(m))
    /\ database' = IF database = "None" THEN "connected" ELSE database
    /\ stats' = database_reset_stats(stats)
    /\ crawl_result' = NoResult
    /\ ncrawls' = ncrawls + 1
    /\ saves' = << >>
    /\ UNCHANGED <<db_up, tx_aborted, crawl_states, server, include_deleted,
                   twin, parse_vars, config_sort_by, writers, posts, comments,
                   change_log, now, failures, last, prev, http_vars>>

\* crawl(max_posts = m, fetch_comments = fc, resume = r) up to its try:
\* connect if self.database is unset, reset_stats, load or build the
\* CrawlState, create the generator.
crawl_starts(m, fc, r) ==
    /\ database # "None" \/ db_up
    /\ r => ~StatementRaises
    /\ LET loaded == IF r THEN get_crawl_state(Subreddit) ELSE << >>
           state == IF loaded # << >> THEN loaded[1]
                    ELSE NewCrawlState(Subreddit, now)
       IN crawl' = [CrawlLocalsIdle EXCEPT
                       !.before = [posts |-> posts,
                                   logged |-> Len(change_log)],
                       !.pc = "loop", !.resume = r,
                       !.fetch_comments = fc,
                       !.max_posts = effective_max_posts(m),
                       !.crawl_state = state]
    /\ gen' = gen_start(effective_max_posts(m))
    /\ database' = IF database = "None" THEN "connected" ELSE database
    /\ stats' = database_reset_stats(stats)
    /\ crawl_result' = NoResult
    /\ ncrawls' = ncrawls + 1
    /\ saves' = << >>
    /\ UNCHANGED <<db_up, tx_aborted, crawl_states, server, include_deleted, twin,
                   parse_vars, config_sort_by, writers, posts, comments,
                   change_log, now, failures, last, prev, http_vars>>

\* A caller invokes crawl() with arguments of its choice.
CrawlStarts ==
    /\ crawl.pc = "idle"
    /\ ncrawls < MaxCrawls
    /\ \E m \in CrawlMaxPostsArgs, fc \in BOOLEAN, r \in BOOLEAN :
         crawl_starts(m, fc, r)
    /\ UNCHANGED sched

\* crawl(resume=True) whose get_crawl_state raises, before the try.
CrawlResumeRaises ==
    /\ crawl.pc = "idle"
    /\ ncrawls < MaxCrawls
    /\ database # "None" \/ db_up
    /\ StatementRaises \/ MayInject
    /\ database' = IF database = "None" THEN "connected" ELSE database
    /\ tx_aborted' = (database' = "connected")
    /\ failures' = IF StatementRaises THEN failures ELSE failures + 1
    /\ stats' = database_reset_stats(stats)
    /\ crawl_result' = RaisedResult
    /\ ncrawls' = ncrawls + 1
    /\ saves' = << >>
    /\ gen' = GenIdle
    /\ UNCHANGED <<db_up, crawl_states, crawl, server, include_deleted, twin, parse_vars, sched_vars, writers,
                   posts, comments, change_log, now, last, prev, http_vars>>

\* for post in self.fetch_posts(...): the generator resumes in its for loop
\* and hands over the next post, or leaves the page.
CrawlNextPost ==
    /\ crawl.pc = "loop"
    /\ gen.pc = "yield"
    /\ gen' = gen_yield(gen)
    /\ crawl' = IF Len(gen'.yielded) > Len(gen.yielded)
                THEN [crawl EXCEPT !.pc = "upsert", !.post = <<Head(gen.buf)>>]
                ELSE crawl
    /\ UNCHANGED <<db_up, database, tx_aborted, crawl_states, crawl_result,
                   ncrawls, saves, server, store_vars, http_vars>>

\* upsert_post on a crawler without a connection: cursor() raises, the
\* rollback of the except clause raises again, and crawl's except Exception
\* takes it.
CrawlUpsertPostRaises ==
    /\ crawl.pc = "upsert"
    /\ database = "no_conn"
    /\ crawl' = crawl_error([crawl EXCEPT
                                !.events = Append(@, Event("upsert_post",
                                                           crawl.post[1].post_id,
                                                           "raised"))])
    /\ gen' = gen_close(gen)
    /\ UNCHANGED <<db_up, database, tx_aborted, crawl_states, crawl_result,
                   ncrawls, saves, server, store_vars, http_vars>>

\* was_updated, action = upsert_post(post); posts_processed += 1; on "error"
\* the error is recorded and the loop continues with the next post.
CrawlUpsertPost ==
    /\ crawl.pc = "upsert"
    /\ database = "connected"
    /\ LET post == crawl.post[1] IN
       \E fail \in (IF tx_aborted THEN {"select"}
                    ELSE FailChoices(post_fail_points(post))) :
         LET out == upsert_post(post, fail, now + 1)
             counted == [crawl EXCEPT
                            !.posts_processed = @ + 1,
                            !.events = Append(@, Event("upsert_post",
                                                       post.post_id,
                                                       out.result.action))]
         IN /\ Stored("upsert_post", post, fail, out)
            /\ failures' = IF fail = "none" \/ tx_aborted THEN failures
                           ELSE failures + 1
            /\ crawl' =
                 IF out.result.action = "error"
                 THEN [counted EXCEPT
                          !.errors = Append(@, "Failed to upsert post "
                                               \o post.post_id),
                          !.pc = "loop"]
                 ELSE IF crawl.fetch_comments /\ fetch_all_comments
                 THEN [counted EXCEPT !.pc = "fetch_comments"]
                 ELSE [counted EXCEPT !.pc = "checkpoint"]
    /\ now' = now + 1
    /\ tx_aborted' = FALSE
    /\ UNCHANGED <<db_up, database, crawl_states, crawl_result, ncrawls,
                   saves, server, gen, include_deleted, twin, parse_vars, sched_vars, writers, http_vars>>

\* comments = self.fetch_comments(post), the request answered.
CrawlFetchComments ==
    /\ crawl.pc = "fetch_comments"
    /\ LET found == fetch_comments(crawl.post[1], include_deleted, now) IN
       crawl' = [crawl EXCEPT
                    !.comment_requests = Append(@, crawl.post[1].post_id),
                    !.events = Append(@, Event("fetch_comments",
                                               crawl.post[1].post_id, "ok")),
                    !.cbuf = found,
                    !.pc = IF found = << >> THEN "checkpoint" ELSE "comments"]
    /\ UNCHANGED <<db_up, database, tx_aborted, crawl_states, crawl_result,
                   ncrawls, saves, server, gen, store_vars, http_vars>>

\* comments = self.fetch_comments(post), get_json returning an error: [].
CrawlFetchCommentsError ==
    /\ crawl.pc = "fetch_comments"
    /\ MayInject
    /\ failures' = failures + 1
    /\ crawl' = [crawl EXCEPT
                    !.comment_requests = Append(@, crawl.post[1].post_id),
                    !.events = Append(@, Event("fetch_comments",
                                               crawl.post[1].post_id,
                                               "error")),
                    !.cbuf = << >>, !.pc = "checkpoint"]
    /\ UNCHANGED <<db_up, database, tx_aborted, crawl_states, crawl_result,
                   ncrawls, saves, server, gen, include_deleted, twin, parse_vars, sched_vars, writers, posts,
                   comments, change_log, stats, now, last, prev, http_vars>>

\* One step of "for comment in comments".
CrawlUpsertComment ==
    /\ crawl.pc = "comments"
    /\ LET comment == Head(crawl.cbuf) IN
       \E fail \in FailChoices(comment_fail_points(comment)) :
         LET out == upsert_comment(comment, fail, now + 1)
             counted == [crawl EXCEPT
                            !.comments_processed = @ + 1,
                            !.events = Append(@, Event("upsert_comment",
                                                       comment.comment_id,
                                                       out.result.action)),
                            !.cbuf = Tail(@),
                            !.pc = IF Tail(crawl.cbuf) = << >>
                                   THEN "checkpoint" ELSE "comments"]
         IN /\ Apply("upsert_comment", comment, fail, out)
            /\ crawl' =
                 IF out.result.action = "error"
                 THEN [counted EXCEPT
                          !.errors = Append(@, "Failed to upsert comment "
                                               \o comment.comment_id)]
                 ELSE counted
    /\ now' = now + 1
    /\ UNCHANGED <<db_up, database, tx_aborted, crawl_states, crawl_result,
                   ncrawls, saves, server, gen, include_deleted, twin, parse_vars, sched_vars, writers, http_vars>>

\* The CrawlState a checkpoint saves.
checkpoint_state(c, t) ==
    [c.crawl_state EXCEPT !.posts_crawled = c.posts_processed,
                          !.comments_crawled = c.comments_processed,
                          !.last_post_id = c.post[1].post_id,
                          !.last_activity = t]

\* if posts_processed % 10 == 0: save the CrawlState; then the next post.
CrawlCheckpoint ==
    /\ crawl.pc = "checkpoint"
    /\ IF crawl.posts_processed % CheckpointEvery = 0
       THEN LET state == checkpoint_state(crawl, now) IN
            /\ crawl' = [crawl EXCEPT !.crawl_state = state, !.pc = "loop"]
            /\ crawl_states' = save_crawl_state(state)
            /\ saves' = Append(saves, Saved("checkpoint", state))
       ELSE /\ crawl' = [crawl EXCEPT !.pc = "loop"]
            /\ UNCHANGED <<crawl_states, saves>>
    /\ UNCHANGED <<db_up, database, tx_aborted, crawl_result, ncrawls,
                   server, gen, store_vars, http_vars>>

\* The checkpoint's save_crawl_state raises: except Exception ends the loop.
CrawlCheckpointFails ==
    /\ crawl.pc = "checkpoint"
    /\ crawl.posts_processed % CheckpointEvery = 0
    /\ MayInject
    /\ failures' = failures + 1
    /\ tx_aborted' = TRUE
    /\ crawl' = crawl_error([crawl EXCEPT
                                !.crawl_state = checkpoint_state(crawl, now)])
    /\ gen' = gen_close(gen)
    /\ UNCHANGED <<db_up, database, crawl_states, crawl_result, ncrawls,
                   saves, server, include_deleted, twin, parse_vars, sched_vars, writers, posts, comments,
                   change_log, stats, now, last, prev, http_vars>>

\* The CrawlState with the counts of the crawl so far.
counted_state(c) ==
    [c.crawl_state EXCEPT !.posts_crawled = c.posts_processed,
                          !.comments_crawled = c.comments_processed]

\* The generator is exhausted: crawl_state.is_complete = True and the counts.
CrawlLoopEnds ==
    /\ crawl.pc = "loop"
    /\ gen.pc = "done"
    /\ crawl' = [crawl EXCEPT
                    !.crawl_state = [counted_state(crawl) EXCEPT
                                        !.is_complete = TRUE],
                    !.pc = "final_save"]
    /\ UNCHANGED <<db_up, database, tx_aborted, crawl_states, crawl_result,
                   ncrawls, saves, server, gen, store_vars, http_vars>>

\* The final save_crawl_state.
CrawlFinalSave ==
    /\ crawl.pc = "final_save"
    /\ ~StatementRaises
    /\ crawl_states' = save_crawl_state(crawl.crawl_state)
    /\ saves' = Append(saves, Saved("final", crawl.crawl_state))
    /\ crawl' = [crawl EXCEPT !.pc = "after_try"]
    /\ UNCHANGED <<db_up, database, tx_aborted, crawl_result, ncrawls,
                   server, gen, store_vars, http_vars>>

\* The final save_crawl_state raises: except Exception records it.
CrawlFinalSaveFails ==
    /\ crawl.pc = "final_save"
    /\ StatementRaises \/ MayInject
    /\ failures' = IF StatementRaises THEN failures ELSE failures + 1
    /\ tx_aborted' = (database = "connected")
    /\ crawl' = crawl_error(crawl)
    /\ UNCHANGED <<db_up, database, crawl_states, crawl_result, ncrawls,
                   saves, server, gen, include_deleted, twin, parse_vars, sched_vars, writers, posts, comments,
                   change_log, stats, now, last, prev, http_vars>>

\* Where a KeyboardInterrupt is delivered: between two posts, before a
\* checkpoint, or between crawl_state.is_complete = True and the final save.
Interruptible == crawl.pc \in {"loop", "checkpoint", "final_save"}

\* except KeyboardInterrupt: record it, save the CrawlState with the counts.
Interrupt ==
    /\ Interruptible
    /\ ~StatementRaises
    /\ LET state == counted_state(crawl) IN
       /\ crawl' = [crawl EXCEPT
                       !.errors = Append(@, "Crawl interrupted by user"),
                       !.crawl_state = state, !.pc = "after_try"]
       /\ crawl_states' = save_crawl_state(state)
       /\ saves' = Append(saves, Saved("interrupt", state))
    /\ gen' = gen_close(gen)
    /\ UNCHANGED <<db_up, database, tx_aborted, crawl_result, ncrawls,
                   server, store_vars, http_vars>>

\* The handler's save_crawl_state raises: no clause catches it, crawl()
\* raises to its caller.
InterruptSaveFails ==
    /\ Interruptible
    /\ StatementRaises \/ MayInject
    /\ failures' = IF StatementRaises THEN failures ELSE failures + 1
    /\ tx_aborted' = (database = "connected")
    /\ crawl' = CrawlLocalsIdle
    /\ crawl_result' = RaisedResult
    /\ gen' = gen_close(gen)
    /\ UNCHANGED <<db_up, database, crawl_states, ncrawls, saves, server,
                   include_deleted, twin, parse_vars, sched_vars, writers, posts, comments, change_log, stats, now,
                   last, prev, http_vars>>

\* db_stats = self.database.get_stats(); return CrawlResult(...).
CrawlReturn ==
    /\ crawl.pc = "after_try"
    /\ ~StatementRaises
    /\ crawl_result' = crawl_return(crawl, stats)
    /\ crawl' = CrawlLocalsIdle
    /\ UNCHANGED <<db_up, database, tx_aborted, crawl_states, ncrawls, saves,
                   server, gen, store_vars, http_vars>>

\* get_stats raises, outside the try: crawl() raises to its caller.
CrawlReturnRaises ==
    /\ crawl.pc = "after_try"
    /\ StatementRaises \/ MayInject
    /\ failures' = IF StatementRaises THEN failures ELSE failures + 1
    /\ tx_aborted' = (database = "connected")
    /\ crawl_result' = RaisedResult
    /\ crawl' = CrawlLocalsIdle
    /\ UNCHANGED <<db_up, database, crawl_states, ncrawls, saves, server, gen,
                   include_deleted, twin, parse_vars, sched_vars, writers, posts, comments, change_log, stats, now,
                   last, prev, http_vars>>

\* ------------------------------------------------- two crawls side by side
\* Two crawler instances, each with a database of its own, that start from
\* the same stored content and crawl the same server with the same max_posts
\* and fetch_comments: the first with resume = True, the second with
\* resume = False. The variables hold the crawler that is running, twin.other
\* the one that is not.
Instance ==
    [posts |-> posts, comments |-> comments, change_log |-> change_log,
     stats |-> stats, now |-> now, last |-> last, prev |-> prev, gen |-> gen,
     database |-> database, tx_aborted |-> tx_aborted,
     crawl_states |-> crawl_states, crawl |-> crawl,
     crawl_result |-> crawl_result, ncrawls |-> ncrawls, saves |-> saves]

\* The database is copied for the second crawler; the arguments of the two
\* crawl() calls are fixed.
TwinFork ==
    /\ twin.phase = "none"
    /\ crawl.pc = "idle"
    /\ \E m \in CrawlMaxPostsArgs, fc \in BOOLEAN :
         twin' = [phase |-> "forked", max_posts |-> m, fetch_comments |-> fc,
                  other |-> Instance]
    /\ UNCHANGED <<include_deleted, parse_vars, sched_vars, posts, comments,
                   change_log, stats, now, failures, last, prev, writers,
                   http_vars, fetch_vars, crawl_vars>>

\* crawl(max_posts, fetch_comments, resume=True) on the first crawler.
TwinCrawlResumes ==
    /\ twin.phase = "forked"
    /\ crawl.pc = "idle"
    /\ ncrawls = twin.other.ncrawls
    /\ crawl_starts(twin.max_posts, twin.fetch_comments, TRUE)
    /\ UNCHANGED sched

\* The first crawl is past its try block; the second crawler takes over.
TwinSwitch ==
    /\ twin.phase = "forked"
    /\ crawl.pc = "after_try"
    /\ twin' = [twin EXCEPT !.phase = "switched", !.other = Instance]
    /\ posts' = twin.other.posts
    /\ comments' = twin.other.comments
    /\ change_log' = twin.other.change_log
    /\ stats' = twin.other.stats
    /\ now' = twin.other.now
    /\ last' = twin.other.last
    /\ prev' = twin.other.prev
    /\ gen' = twin.other.gen
    /\ database' = twin.other.database
    /\ tx_aborted' = twin.other.tx_aborted
    /\ crawl_states' = twin.other.crawl_states
    /\ crawl' = twin.other.crawl
    /\ crawl_result' = twin.other.crawl_result
    /\ ncrawls' = twin.other.ncrawls
    /\ saves' = twin.other.saves
    /\ UNCHANGED <<include_deleted, parse_vars, sched_vars, failures, writers,
                   http_vars, server, db_up>>

\* crawl(max_posts, fetch_comments, resume=False) on the second crawler.
TwinCrawlStarts ==
    /\ twin.phase = "switched"
    /\ crawl.pc = "idle"
    /\ ncrawls + 1 = twin.other.ncrawls
    /\ crawl_starts(twin.max_posts, twin.fetch_comments, FALSE)
    /\ UNCHANGED sched

\* Before the two crawlers are set up: crawls with any arguments, a
\* KeyboardInterrupt, a score that changes on the server.
EarlierCrawlStarts == twin.phase = "none" /\ CrawlStarts

EarlierInterrupt == twin.phase = "none" /\ Interrupt

EarlierScoreChanges == twin.phase = "none" /\ ServerScoreChanges

\* --------------------------------------------------------------- scheduler
\* CrawlerConfig.sort_by: 'Options: "hot", "new", "top", "rising"'.
SortModes == {"new", "hot", "top"}

\* start(subreddit, max_posts) as run_scheduled calls it.
SchedulerMaxPostsArgs == {1, 3}

\* The listing the server holds while the scheduler runs: one page of two
\* posts whose cursor leads to an empty page.
SchedulerListing ==
    <<[children |-> <<LiveChild("p1a"), LiveChild("p1b")>>, after |-> 2]>>

\* CrawlerScheduler.__init__: running = False. pc is the position of start():
\* "idle" (not called), "test" (at the while condition), "call" (in the
\* loop body, before crawl_incremental), "in_cycle", "after_cycle" (at
\* "if self.running"), "sleeping", "returned", "exited" (the process left
\* through sys.exit). tests counts the while conditions that held, cycles
\* the crawl_incremental calls, log what each cycle logged; stops counts the
\* stop() calls and exit keeps where a sys.exit found the crawl.
SchedulerLocalsIdle ==
    [pc |-> "idle", running |-> FALSE, max_posts |-> 0, tests |-> 0,
     cycles |-> 0, log |-> << >>, stops |-> 0,
     exit |-> [in_crawl |-> FALSE, posts_processed |-> 0,
               comments_processed |-> 0]]

SchedulerIdle ==
    /\ config_sort_by = "new"
    /\ sched = SchedulerLocalsIdle

\* A stop() that leaves the flag as it is.
stop_keeps_running(sc) == [sc EXCEPT !.stops = @ + 1]

\* stop(): self.running = False.
stop(sc) == [sc EXCEPT !.running = FALSE, !.stops = @ + 1]

\* An except clause that lets the exception of a cycle leave start().
cycle_raised_leaves_start(sc) ==
    [sc EXCEPT !.log = Append(@, "raised"), !.pc = "returned"]

\* except Exception as e: logger.error(...); on to "if self.running".
cycle_raised(sc) ==
    [sc EXCEPT !.log = Append(@, "raised"), !.pc = "after_cycle"]

\* result = crawl_incremental(...); logger.info(...); on to "if self.running".
cycle_returned(sc, result) ==
    [sc EXCEPT !.log = Append(@, IF result.errors = << >> THEN "clean"
                                 ELSE "errors"),
               !.pc = "after_cycle"]

\* crawl_incremental(subreddit, max_posts): crawl(subreddit=subreddit,
\* max_posts=max_posts, fetch_comments=True, resume=False).
crawl_incremental(m) == crawl_starts(m, TRUE, FALSE)

\* start(): self.running = True, then the while loop.
SchedulerStart ==
    /\ sched.pc = "idle"
    /\ \E m \in SchedulerMaxPostsArgs :
         sched' = [sched EXCEPT !.pc = "test", !.running = TRUE,
                                !.max_posts = m]
    /\ UNCHANGED <<config_sort_by, include_deleted, twin, parse_vars, posts,
                   comments, change_log, stats, now, failures, last, prev,
                   writers, http_vars, fetch_vars, crawl_vars>>

\* while self.running: into the loop body, or out of start().
SchedulerLoopTest ==
    /\ sched.pc = "test"
    /\ sched.running => ncrawls < MaxCrawls
    /\ sched' = IF sched.running
                THEN [sched EXCEPT !.pc = "call", !.tests = @ + 1]
                ELSE [sched EXCEPT !.pc = "returned"]
    /\ UNCHANGED <<config_sort_by, include_deleted, twin, parse_vars, posts,
                   comments, change_log, stats, now, failures, last, prev,
                   writers, http_vars, fetch_vars, crawl_vars>>

\* try: result = self.crawler.crawl_incremental(subreddit, max_posts)
SchedulerCycle ==
    /\ sched.pc = "call"
    /\ crawl.pc = "idle"
    /\ crawl_incremental(sched.max_posts)
    /\ sched' = [sched EXCEPT !.pc = "in_cycle", !.cycles = @ + 1]

\* crawl_incremental returned a CrawlResult: the summary is logged.
SchedulerCycleReturns ==
    /\ sched.pc = "in_cycle"
    /\ crawl.pc = "idle"
    /\ crawl_result.status = "returned"
    /\ sched' = cycle_returned(sched, crawl_result)
    /\ UNCHANGED <<config_sort_by, include_deleted, twin, parse_vars, posts,
                   comments, change_log, stats, now, failures, last, prev,
                   writers, http_vars, fetch_vars, crawl_vars>>

\* crawl_incremental raised: except Exception logs the error.
SchedulerCycleRaises ==
    /\ sched.pc = "in_cycle"
    /\ crawl.pc = "idle"
    /\ crawl_result.status = "raised"
    /\ sched' = cycle_raised(sched)
    /\ UNCHANGED <<config_sort_by, include_deleted, twin, parse_vars, posts,
                   comments, change_log, stats, now, failures, last, prev,
                   writers, http_vars, fetch_vars, crawl_vars>>

\* if self.running: time.sleep(self.interval_seconds)
SchedulerSleeps ==
    /\ sched.pc = "after_cycle"
    /\ sched' = IF sched.running THEN [sched EXCEPT !.pc = "sleeping"]
                ELSE [sched EXCEPT !.pc = "test"]
    /\ UNCHANGED <<config_sort_by, include_deleted, twin, parse_vars, posts,
                   comments, change_log, stats, now, failures, last, prev,
                   writers, http_vars, fetch_vars, crawl_vars>>

\* time.sleep returns after the interval.
SchedulerWakes ==
    /\ sched.pc = "sleeping"
    /\ sched' = [sched EXCEPT !.pc = "test"]
    /\ UNCHANGED <<config_sort_by, include_deleted, twin, parse_vars, posts,
                   comments, change_log, stats, now, failures, last, prev,
                   writers, http_vars, fetch_vars, crawl_vars>>

\* start() is on the stack of the main thread.
SchedulerRunning == sched.pc \notin {"idle", "returned", "exited"}

\* Another thread, or a handler that returns, calls stop() while start()
\* runs.
SchedulerStop ==
    /\ SchedulerRunning
    /\ sched.running
    /\ sched' = stop(sched)
    /\ UNCHANGED <<config_sort_by, include_deleted, twin, parse_vars, posts,
                   comments, change_log, stats, now, failures, last, prev,
                   writers, http_vars, fetch_vars, crawl_vars>>

\* SIGINT under run_scheduled: signal_handler calls scheduler.stop() and
\* sys.exit(0). SystemExit is raised where the main thread stands; neither
\* "except KeyboardInterrupt" nor "except Exception" of crawl() nor the
\* scheduler's "except Exception" takes it, so it leaves start() and main()
\* closes the connection in its finally clause.
SignalHandler ==
    /\ SchedulerRunning
    /\ sched' = [stop(sched) EXCEPT
                    !.pc = "exited",
                    !.exit = [in_crawl |-> crawl.pc # "idle",
                              posts_processed |-> crawl.posts_processed,
                              comments_processed |->
                                  crawl.comments_processed]]
    /\ crawl' = CrawlLocalsIdle
    /\ gen' = IF gen.pc \in {"idle", "done"} THEN gen ELSE gen_close(gen)
    /\ tx_aborted' = FALSE
    /\ UNCHANGED <<db_up, database, crawl_states, crawl_result, ncrawls,
                   saves, server, config_sort_by, include_deleted, twin, parse_vars,
                   posts, comments, change_log, stats, now, failures, last,
                   prev, writers, http_vars>>

\* ---------------------------------------------------------- specifications
InitStore ==
    /\ CrawlIdle
    /\ include_deleted \in BOOLEAN
    /\ StoreEmpty
    /\ twin = NoTwin
    /\ SchedulerIdle
    /\ ParserIdle
    /\ HttpIdle
    /\ FetchIdle

NextStore == UpsertPost \/ UpsertComment

SpecStore == InitStore /\ [][NextStore]_vars

NextLifecycle ==
    \/ UpsertPost
    \/ UpsertComment
    \/ SaveCrawlState
    \/ ResetCrawlState

SpecLifecycle == InitStore /\ [][NextLifecycle]_vars

NextObserve == ObservePost \/ ObserveComment

SpecObserve == InitStore /\ [][NextObserve]_vars

InitParse ==
    /\ CrawlIdle
    /\ include_deleted \in BOOLEAN
    /\ StoreEmpty
    /\ twin = NoTwin
    /\ SchedulerIdle
    /\ HttpIdle
    /\ FetchIdle
    /\ comments_response \in CommentResponses
    /\ depth_arg \in 0..MaxDepthArg
    /\ page_result = NotParsed
    /\ listing_response = NoListing
    /\ listing_result = ListingNotParsed

NextParse == ParseCommentsPage

SpecParse == InitParse /\ [][NextParse]_vars

InitBatch ==
    /\ CrawlIdle
    /\ include_deleted = FALSE
    /\ StoreEmpty
    /\ twin = NoTwin
    /\ SchedulerIdle
    /\ HttpIdle
    /\ FetchIdle
    /\ comments_response \in BatchResponses
    /\ depth_arg = comment_depth
    /\ page_result = NotParsed
    /\ listing_response \in BatchListings
    /\ listing_result = ListingNotParsed

NextBatch == ParsePostListing \/ ParseCommentsPage

SpecBatch == InitBatch /\ [][NextBatch]_vars

\* No persistence failure is injected and the server answers every request:
\* the two crawlers meet the same environment.
InitResume ==
    /\ include_deleted = FALSE
    /\ posts = EmptyTable
    /\ comments = EmptyTable
    /\ change_log = << >>
    /\ stats = ZeroStats
    /\ now = 0
    /\ failures = MaxFailures
    /\ last = NoCall
    /\ prev = NoCall
    /\ writers = [w \in Writers |-> WriterIdle]
    /\ twin = NoTwin
    /\ SchedulerIdle
    /\ ParserIdle
    /\ HttpIdle
    /\ server \in CrawlListings
    /\ gen = GenIdle
    /\ CrawlIdle

NextResume ==
    \/ EarlierCrawlStarts
    \/ EarlierInterrupt
    \/ EarlierScoreChanges
    \/ TwinFork
    \/ TwinCrawlResumes
    \/ TwinSwitch
    \/ TwinCrawlStarts
    \/ FetchListingPage
    \/ FetchLoopExit
    \/ CrawlNextPost
    \/ CrawlUpsertPost
    \/ CrawlFetchComments
    \/ CrawlUpsertComment
    \/ CrawlCheckpoint
    \/ CrawlLoopEnds
    \/ CrawlFinalSave
    \/ CrawlReturn

SpecResume == InitResume /\ [][NextResume]_vars

InitRace ==
    /\ CrawlIdle
    /\ include_deleted = FALSE
    /\ StoreEmpty
    /\ twin = NoTwin
    /\ SchedulerIdle
    /\ ParserIdle
    /\ HttpIdle
    /\ FetchIdle

NextRace == WriterSelects \/ WriterWrites

SpecRace == InitRace /\ [][NextRace]_vars

InitHttp ==
    /\ CrawlIdle
    /\ include_deleted = FALSE
    /\ StoreEmpty
    /\ twin = NoTwin
    /\ SchedulerIdle
    /\ ParserIdle
    /\ HttpIdle
    /\ FetchIdle

NextHttp ==
    \/ HttpRequest
    \/ RespondSuccess
    \/ RespondClientError
    \/ RespondRateLimited
    \/ RespondServerError
    \/ RaiseException

SpecHttp == InitHttp /\ [][NextHttp]_vars

InitFetch ==
    /\ CrawlIdle
    /\ include_deleted = FALSE
    /\ StoreEmpty
    /\ twin = NoTwin
    /\ SchedulerIdle
    /\ ParserIdle
    /\ HttpIdle
    /\ server \in Listings
    /\ gen = GenIdle

NextFetch ==
    \/ FetchPostsCall
    \/ FetchListingPage
    \/ FetchListingError
    \/ FetchLoopExit
    \/ YieldPost

SpecFetch == InitFetch /\ [][NextFetch]_vars

InitCrawl ==
    /\ include_deleted = FALSE
    /\ StoreEmpty
    /\ twin = NoTwin
    /\ SchedulerIdle
    /\ ParserIdle
    /\ HttpIdle
    /\ server \in CrawlListings
    /\ gen = GenIdle
    /\ db_up \in BOOLEAN
    /\ database = "None"
    /\ tx_aborted = FALSE
    /\ crawl_states = EmptyTable
    /\ crawl = CrawlLocalsIdle
    /\ crawl_result = NoResult
    /\ ncrawls = 0
    /\ saves = << >>

NextCrawl ==
    \/ ServerScoreChanges
    \/ CrawlConnectFails
    \/ CrawlStarts
    \/ CrawlResumeRaises
    \/ FetchListingPage
    \/ FetchListingError
    \/ FetchLoopExit
    \/ CrawlNextPost
    \/ CrawlUpsertPostRaises
    \/ CrawlUpsertPost
    \/ CrawlFetchComments
    \/ CrawlFetchCommentsError
    \/ CrawlUpsertComment
    \/ CrawlCheckpoint
    \/ CrawlCheckpointFails
    \/ CrawlLoopEnds
    \/ CrawlFinalSave
    \/ CrawlFinalSaveFails
    \/ Interrupt
    \/ InterruptSaveFails
    \/ CrawlReturn
    \/ CrawlReturnRaises

SpecCrawl == InitCrawl /\ [][NextCrawl]_vars

InitScheduler ==
    /\ include_deleted = FALSE
    /\ StoreEmpty
    /\ twin = NoTwin
    /\ ParserIdle
    /\ HttpIdle
    /\ config_sort_by \in SortModes
    /\ sched = SchedulerLocalsIdle
    /\ server = SchedulerListing
    /\ gen = GenIdle
    /\ db_up = TRUE
    /\ database = "connected"
    /\ tx_aborted = FALSE
    /\ crawl_states = EmptyTable
    /\ crawl = CrawlLocalsIdle
    /\ crawl_result = NoResult
    /\ ncrawls = 0
    /\ saves = << >>

NextScheduler ==
    \/ SchedulerStart
    \/ SchedulerLoopTest
    \/ SchedulerCycle
    \/ FetchListingPage
    \/ FetchListingError
    \/ FetchLoopExit
    \/ CrawlNextPost
    \/ CrawlUpsertPost
    \/ CrawlFetchComments
    \/ CrawlFetchCommentsError
    \/ CrawlUpsertComment
    \/ CrawlCheckpoint
    \/ CrawlLoopEnds
    \/ CrawlFinalSave
    \/ CrawlFinalSaveFails
    \/ CrawlReturn
    \/ CrawlReturnRaises
    \/ SchedulerCycleReturns
    \/ SchedulerCycleRaises
    \/ SchedulerSleeps
    \/ SchedulerWakes
    \/ SchedulerStop
    \/ SignalHandler

SpecScheduler == InitScheduler /\ [][NextScheduler]_vars

\* The main thread keeps running: the crawl in progress goes on, a sleep
\* ends, the loop takes its next step. stop() and the signal are up to the
\* environment.
SchedulerMainThread ==
    \/ SchedulerLoopTest
    \/ SchedulerCycle
    \/ FetchListingPage
    \/ FetchListingError
    \/ FetchLoopExit
    \/ CrawlNextPost
    \/ CrawlUpsertPost
    \/ CrawlFetchComments
    \/ CrawlFetchCommentsError
    \/ CrawlUpsertComment
    \/ CrawlCheckpoint
    \/ CrawlLoopEnds
    \/ CrawlFinalSave
    \/ CrawlFinalSaveFails
    \/ CrawlReturn
    \/ CrawlReturnRaises
    \/ SchedulerCycleReturns
    \/ SchedulerCycleRaises
    \/ SchedulerSleeps
    \/ SchedulerWakes

SpecSchedulerLive == SpecScheduler /\ WF_vars(SchedulerMainThread)



\* ------------------------------------------------ claims about fetch_posts
RECURSIVE Concat(_)
Concat(ss) == IF ss = << >> THEN << >> ELSE Head(ss) \o Concat(Tail(ss))

\* The ids of the posts page k yields once parsed.
PagePostIds(k) ==
    LET parsed == parse_post_listing(server[k], include_deleted, now).posts
    IN [i \in 1..Len(parsed) |-> parsed[i].post_id]

AllPostIds == Concat([k \in 1..Len(server) |-> PagePostIds(k)])

\* The server holds a sequence of pages, each pointing to the next and the
\* last one carrying no cursor.
PageSequence ==
    /\ \A k \in 1..(Len(server) - 1) : server[k].after = k + 1
    /\ server[Len(server)].after = 0

\* fetch_posts(maxPosts) ran to its end over such a sequence, every request
\* was answered, and the sequence holds at most maxPosts posts.
FetchedWholeSequence ==
    /\ gen.pc = "done"
    /\ ~gen.error
    /\ PageSequence
    /\ Len(AllPostIds) <= gen.arg_max_posts

OneRequestPerPage ==
    /\ Len(gen.requests) = Len(server)
    /\ \A k \in 1..Len(gen.requests) :
           gen.requests[k].after = (IF k = 1 THEN 0 ELSE k)

\* C7 as stated: over any sequence of pages whose last page has no cursor
\* and which holds at most maxPosts posts, fetch_posts yields all the posts
\* in order with exactly one request per page.
C7_YieldsEveryPage ==
    FetchedWholeSequence =>
        /\ gen.yielded = AllPostIds
        /\ OneRequestPerPage

PostsBeforeLastPage ==
    Concat([k \in 1..(Len(server) - 1) |-> PagePostIds(k)])

\* C7 amended: over any sequence of pages whose last page has no cursor,
\* whose pages before the last each yield at least one post and together
\* fewer than maxPosts posts, and which holds at most maxPosts posts,
\* fetch_posts yields all the posts in order with exactly one request per
\* page and none after the cursor-less page.
C7_PaginationTermination ==
    (/\ FetchedWholeSequence
     /\ \A k \in 1..(Len(server) - 1) : PagePostIds(k) # << >>
     /\ Len(PostsBeforeLastPage) < gen.arg_max_posts) =>
        /\ gen.yielded = AllPostIds
        /\ OneRequestPerPage

\* Two pages, the first with a dropped deleted post, were fetched whole.
C7_Witness ==
    /\ FetchedWholeSequence
    /\ Len(server) = 2
    /\ Len(server[1].children) > Len(PagePostIds(1))
    /\ Len(gen.yielded) = 2
    /\ Len(gen.requests) = 2

\* C8 as stated: fetch_posts(maxCount) yields at most maxCount posts, for
\* every maxCount >= 0, and every page request asks for
\* min(maxCount - yielded, 100) items.
C8_NeverMoreThanMaxCount ==
    /\ Len(gen.yielded) <= gen.arg_max_posts
    /\ \A k \in 1..Len(gen.requests) :
           gen.requests[k].limit <= Min(gen.arg_max_posts, PageCap)

\* ---------------------------------------------------- claims about crawl()
\* C3 (as stated): once the database is connected, no crawl() invocation
\* raises to its caller, whatever store failure occurs: it returns a
\* CrawlResult.
C3_CrawlNeverRaises ==
    database = "connected" => crawl_result.status # "raised"

\* C4 (as stated): while no database connection can be established, every
\* crawl() invocation, a later one on the same crawler included, returns the
\* error result with all counts zero at once: no HTTP request is issued, the
\* post loop is not entered, nothing is raised.
C4_FatalInitOnEveryInvocation ==
    ~db_up => /\ crawl.pc = "idle"
              /\ gen.requests = << >>
              /\ crawl_result \in {NoResult, FatalResult}

\* posts_crawled of the CrawlState persisted for the subreddit, 0 if none.
PersistedPostsCrawled ==
    IF Subreddit \in DOMAIN crawl_states
    THEN crawl_states[Subreddit].posts_crawled
    ELSE 0

\* C5 (as stated): whenever a running crawl is between two posts, the posts
\* processed so far exceed the persisted posts_crawled by at most 9, whatever
\* the upsert outcomes were.
C5_CheckpointEveryTenthPost ==
    crawl.pc = "loop" =>
        crawl.posts_processed - PersistedPostsCrawled <= CheckpointEvery - 1

\* C6 (as stated): of the CrawlStates a crawl saves, with resume or without,
\* those saved by a checkpoint or by the interrupt handler have is_complete
\* false, and the final save has is_complete true.
C6_CompleteOnlyOnNormalCompletion ==
    \A i \in 1..Len(saves) :
        saves[i].is_complete <=> saves[i].kind = "final"

\* s is a prefix of t.
IsPrefix(s, t) == Len(s) <= Len(t) /\ s = SubSeq(t, 1, Len(s))

\* The ids of the comments of a tree in pre-order: a comment, its replies,
\* then its next sibling; a comment that is dropped takes its replies along.
RECURSIVE PreOrder(_)
PreOrder(children) ==
    IF children = << >> THEN << >>
    ELSE LET child == Head(children) IN
         (IF child.kind = "t1"
             /\ ~(is_deleted2(child.data.author, child.data.body)
                  /\ ~include_deleted)
          THEN <<child.data.id>> \o PreOrder(child.data.replies)
          ELSE << >>)
         \o PreOrder(Tail(children))

IdsOf(events) == [i \in 1..Len(events) |-> events[i].id]

IsKind(k, e) == e.kind = k

\* The post upserts of the crawl so far.
PostUpserts ==
    LET is_post(e) == IsKind("upsert_post", e) IN
    SelectSeq(crawl.events, is_post)

\* The last event before event i that is not a comment upsert.
Opening(i) ==
    CHOOSE f \in 0..(i - 1) :
        /\ f > 0 => crawl.events[f].kind # "upsert_comment"
        /\ \A k \in (f + 1)..(i - 1) : crawl.events[k].kind = "upsert_comment"

\* C13: within a crawl the posts are upserted in listing order; a post's
\* comments are fetched right after its upsert returned, and only when it did
\* not return "error"; a post's comments are upserted in tree pre-order.
C13_Ordering ==
    /\ IsPrefix(IdsOf(PostUpserts), AllPostIds)
    /\ \A i \in 1..Len(crawl.events) :
         LET e == crawl.events[i] IN
         /\ e.kind = "fetch_comments" =>
                /\ i > 1
                /\ crawl.events[i - 1].kind = "upsert_post"
                /\ crawl.events[i - 1].id = e.id
                /\ crawl.events[i - 1].action # "error"
         /\ e.kind = "upsert_comment" =>
                LET f == Opening(i) IN
                /\ f > 0
                /\ crawl.events[f].kind = "fetch_comments"
                /\ IsPrefix(IdsOf(SubSeq(crawl.events, f + 1, i)),
                            PreOrder(comments_page(crawl.events[f].id)))

\* A crawl upserted a reply and then its parent's next sibling, had a post
\* upsert end in "error" and went on to a later post.
C13_Witness ==
    /\ \E i \in 2..Len(crawl.events) :
           /\ crawl.events[i].kind = "upsert_comment"
           /\ crawl.events[i].id = "c4"
           /\ crawl.events[i - 1].id = "c2"
    /\ Len(PostUpserts) = 2

\* The server holds one listing page without a cursor whose children are all
\* posts that are not deleted.
SinglePage ==
    /\ Len(server) = 1
    /\ server[1].after = 0
    /\ \A i \in 1..Len(server[1].children) :
         /\ server[1].children[i].kind = "t3"
         /\ ~is_deleted2(server[1].children[i].data.author,
                         server[1].children[i].data.selftext)

\* No save of the running crawl was made by the KeyboardInterrupt handler.
NotInterrupted == \A i \in 1..Len(saves) : saves[i].kind # "interrupt"

\* The first crawl of a behaviour (the store was empty when it started) is
\* past its try block; it ran on a single page of k posts with a limit of at
\* least k and fetch_comments = False, the listing request was answered, no
\* persistence failure occurred and the crawl was not interrupted.
FirstCrawlDone ==
    /\ ncrawls = 1
    /\ crawl.pc = "after_try"
    /\ SinglePage
    /\ ~crawl.fetch_comments
    /\ crawl.max_posts >= Len(server[1].children)
    /\ ~gen.error
    /\ failures = 0
    /\ NotInterrupted

\* C14: the first crawl of a single page of k posts that are not deleted, on
\* an empty store and with fetch_comments = False, returns posts_fetched = k,
\* posts_inserted = k, posts_updated = 0, comments_fetched = 0 and no errors,
\* and it has issued no comment request.
C14_FirstCrawl ==
    [][(FirstCrawlDone /\ crawl_result'.status = "returned") =>
          LET k == Len(server[1].children) IN
          /\ crawl_result'.posts_fetched = k
          /\ crawl_result'.posts_inserted = k
          /\ crawl_result'.posts_updated = 0
          /\ crawl_result'.comments_fetched = 0
          /\ crawl_result'.errors = << >>
          /\ crawl.comment_requests = << >>
          /\ Cardinality(DOMAIN posts) = k]_vars

\* Such a crawl has returned its result for the page of ten posts.
C14_Witness ==
    /\ ncrawls = 1
    /\ SinglePage
    /\ failures = 0
    /\ ~gen.error
    /\ NotInterrupted
    /\ crawl.pc = "idle"
    /\ crawl_result.status = "returned"
    /\ crawl_result.posts_fetched = Len(server[1].children)
    /\ crawl_result.posts_inserted = CheckpointEvery
    /\ crawl_result.comments_fetched = 0
    /\ comments = EmptyTable

\* The posts the listing holds, as parse_post_listing returns them.
ListingPosts ==
    Concat([k \in 1..Len(server) |->
               parse_post_listing(server[k], include_deleted, now).posts])

\* The post with the given id as the listing holds it.
Listed(id) ==
    LET i == CHOOSE i \in 1..Len(ListingPosts) : ListingPosts[i].post_id = id
    IN  ListingPosts[i]

Upserted == {PostUpserts[i].id : i \in 1..Len(PostUpserts)}

\* The upserted posts whose score is not the score stored before the crawl.
ScoreChanged ==
    {id \in Upserted \cap DOMAIN crawl.before.posts :
        Listed(id).score # crawl.before.posts[id].score}

\* A crawl is past its try block; it upserted exactly the posts that were
\* stored before it started, none of its store calls failed, one of the posts
\* has another score than the stored one and the others have the stored
\* title, text and score.
RecrawlDone ==
    /\ crawl.pc = "after_try"
    /\ Upserted = DOMAIN crawl.before.posts
    /\ Upserted # {}
    /\ \A i \in 1..Len(crawl.events) : crawl.events[i].action # "error"
    /\ Cardinality(ScoreChanged) = 1
    /\ \A id \in Upserted \ ScoreChanged :
         /\ Listed(id).title = crawl.before.posts[id].title
         /\ Listed(id).selftext = crawl.before.posts[id].selftext

\* C15: a re-crawl of the stored posts of which exactly one has a changed
\* score returns posts_updated = 1 and posts_inserted = 0, the other posts'
\* upserts return "unchanged", the change log has exactly one entry more and
\* the same posts are stored as before.
C15_Recrawl ==
    [][(RecrawlDone /\ crawl_result'.status = "returned") =>
          /\ crawl_result'.posts_updated = 1
          /\ crawl_result'.posts_inserted = 0
          /\ \A i \in 1..Len(PostUpserts) :
               PostUpserts[i].action =
                   IF PostUpserts[i].id \in ScoreChanged THEN "updated"
                   ELSE "unchanged"
          /\ Len(change_log) = crawl.before.logged + 1
          /\ DOMAIN posts = DOMAIN crawl.before.posts]_vars

\* A second crawl over ten stored posts, the score of one of which the
\* server changed in between, has returned.
C15_Witness ==
    /\ ncrawls = 2
    /\ Cardinality(Edited) = 1
    /\ crawl.pc = "idle"
    /\ crawl_result.status = "returned"
    /\ crawl_result.posts_fetched = CheckpointEvery
    /\ crawl_result.posts_updated = 1
    /\ crawl_result.posts_inserted = 0
    /\ Len(change_log) = 1
    /\ Cardinality(DOMAIN posts) = CheckpointEvery

\* ------------------------------------------- claims about concurrent writers
\* The calls of writers a and b have both ended without a failure, for the
\* same operation and id, and the SELECT of each saw no row: each call began
\* before the other one's INSERT was committed.
Raced(a, b) ==
    /\ a # b
    /\ writers[a].pc = "idle" /\ writers[b].pc = "idle"
    /\ writers[a].op # "none" /\ writers[a].op = writers[b].op
    /\ writers[a].id = writers[b].id
    /\ writers[a].seen = << >> /\ writers[b].seen = << >>
    /\ writers[a].fail = "none" /\ writers[b].fail = "none"

RacedTable(a) == IF writers[a].op = "upsert_post" THEN posts ELSE comments

\* Every row is stored under its own id.
KeyedById ==
    /\ \A id \in DOMAIN posts : posts[id].post_id = id
    /\ \A id \in DOMAIN comments : comments[id].comment_id = id

\* C16: of two writers that upsert the same id, both having looked it up as
\* absent, one inserts the record and the other returns (False, "duplicate");
\* the record stored is the one the winner inserted, and ids stay unique.
C16_ConcurrentInsert ==
    /\ KeyedById
    /\ \A a, b \in Writers :
         Raced(a, b) =>
            /\ writers[a].id \in DOMAIN RacedTable(a)
            /\ \E w \in {a, b} :
                 LET l == CHOOSE l \in {a, b} : l # w IN
                 /\ writers[w].result = [changed |-> TRUE,
                                         action |-> "inserted"]
                 /\ writers[l].result = [changed |-> FALSE,
                                         action |-> "duplicate"]

\* Two writers raced on the insert of a comment and the loser's call ended
\* in "duplicate"; the comment is registered once with its post.
C16_Witness ==
    \E a, b \in Writers :
        /\ Raced(a, b)
        /\ writers[a].op = "upsert_comment"
        /\ writers[b].result.action = "duplicate"
        /\ "p1" \in DOMAIN posts => Len(posts["p1"].comment_ids) <= 1

\* ------------------------------------------- claims about the comment parser
\* The children of a comment tree, each with its nesting level and the id of
\* the comment it is nested under ("" for the post).
RECURSIVE NodesOf(_, _, _)
NodesOf(children, level, under) ==
    IF children = << >> THEN {}
    ELSE LET c == Head(children) IN
         {[id |-> c.data.id, kind |-> c.kind,
           more |-> (c.kind = "more" \/ Get(c.data, "kind", "") = "more"),
           removed |-> (Get(c.data, "body", "") \in DeletedMarks),
           level |-> level, under |-> under, ref |-> c.data.parent_id]}
         \cup NodesOf(Get(c.data, "replies", << >>), level + 1, c.data.id)
         \cup NodesOf(Tail(children), level, under)

PayloadNodes ==
    IF Len(comments_response) < 2 THEN {}
    ELSE NodesOf(comments_response[2].children, 0, "")

Produced == {page_result.comments[i] : i \in 1..Len(page_result.comments)}

NodeOf(id) == CHOOSE n \in PayloadNodes : n.id = id

\* C18: parse_comments_page returns no Comment deeper than max_depth; a
\* top-level comment has depth 0 and a reply the depth of the comment it is
\* nested under plus one.
C18_DepthBound ==
    page_result.done =>
        \A c \in Produced :
            /\ c.depth <= depth_arg
            /\ \E n \in PayloadNodes : n.id = c.comment_id
            /\ c.depth = NodeOf(c.comment_id).level
            /\ IF NodeOf(c.comment_id).under = "" THEN c.depth = 0
               ELSE \E q \in Produced :
                       /\ q.comment_id = NodeOf(c.comment_id).under
                       /\ c.depth = q.depth + 1

\* A page was parsed whose tree holds a comment below max_depth, and a reply
\* at depth max_depth was returned.
C18_Witness ==
    /\ page_result.done
    /\ depth_arg >= 1
    /\ \E n \in PayloadNodes :
          n.level > depth_arg /\ n.kind = "t1" /\ ~n.more /\ ~n.removed
    /\ \E c \in Produced : c.depth = depth_arg

\* C19: no "more" child yields a Comment, at any level, and there are at most
\* as many Comments as the payload has children of kind "t1".
C19_MoreExclusion ==
    page_result.done =>
        /\ \A c \in Produced :
              \E n \in PayloadNodes :
                  n.id = c.comment_id /\ n.kind = "t1" /\ ~n.more
        /\ Len(page_result.comments)
               <= Cardinality({n \in PayloadNodes : n.kind = "t1"})

\* A page was parsed, deleted content included, that has a "more" stub among
\* the replies of a comment that was returned.
C19_Witness ==
    /\ page_result.done
    /\ include_deleted
    /\ \E n \in PayloadNodes :
          /\ n.kind = "more"
          /\ n.level <= depth_arg
          /\ \E q \in Produced : q.comment_id = n.under

\* Bare ids, some of which look like a prefix themselves.
BareIds == {"abc", "c1", "t1_c1", "t3_", "t3", ""}

\* Every child carries the forum's reference to the node it is nested under.
WellFormed == \A n \in PayloadNodes : n.ref = ParentRef(n.under)

\* C20: "t1_x" and "t3_x" normalize to x, so that the parent_id of a Comment
\* is the post_id of its post when it is top-level and else the comment_id of
\* the comment it is nested under.
C20_ParentIdNormalization ==
    /\ \A x \in BareIds :
          /\ normalize_parent_id("t1_" \o x) = x
          /\ normalize_parent_id("t3_" \o x) = x
    /\ (page_result.done /\ WellFormed) =>
          \A c \in Produced :
              c.parent_id = IF NodeOf(c.comment_id).under = "" THEN c.post_id
                            ELSE NodeOf(c.comment_id).under

\* A well-formed page was parsed that returned a top-level comment and a
\* reply to it.
C20_Witness ==
    /\ page_result.done
    /\ WellFormed
    /\ \E c, q \in Produced :
          /\ q.depth = 0 /\ q.parent_id = PagePost
          /\ c.depth = 1 /\ c.parent_id = q.comment_id

\* --------------------------------------------- claims about the HTTP client
FailureOutcomes == {"429", "5xx", "exception"}

Returned == http_pc = "returned"

SameIdentity ==
    \A i \in 1..Len(http_trace) : http_trace[i].identity = http_trace[1].identity

\* C9 as stated: the attempts made for one request() call are at most
\* max_retries, over any mix of 429, 5xx and exceptions, and every attempt
\* carries the same url, method, params and headers.
C9_AtMostMaxRetriesAttempts ==
    /\ Len(http_trace) <= max_retries
    /\ SameIdentity

\* C9 amended: the attempts made for one request() call are at most
\* max_retries + 1 (the first attempt and max_retries retries), the retry
\* budget being shared by 429, 5xx and exceptions, and every attempt carries
\* the same url, method, params and headers.
C9_RetryBound ==
    /\ Len(http_trace) <= max_retries + 1
    /\ SameIdentity
    /\ (http_pc = "try" => req.retry_count = Len(http_trace))
    /\ (http_pc = "try" => Identity(req) \in
            {http_trace[i].identity : i \in 1..Len(http_trace)}
            \cup (IF http_trace = << >> THEN {Identity(req)} ELSE {}))

\* A call with parameters used its whole budget on a mix of the three
\* failure kinds.
C9_Witness ==
    /\ Returned
    /\ Len(http_trace) = max_retries + 1
    /\ {http_trace[i].outcome : i \in 1..Len(http_trace)} = FailureOutcomes
    /\ req.params # ""

\* Every attempt of the call failed and the retry budget is used up.
BudgetExhausted ==
    /\ Returned
    /\ Len(http_trace) = max_retries + 1
    /\ \A i \in 1..Len(http_trace) : http_trace[i].outcome \in FailureOutcomes

\* C10 as stated: a call whose attempts all failed until the budget was used
\* up returns a Response whose error field is set.
C10_TerminalErrorSet ==
    BudgetExhausted => http_result.error # "None"

\* C10 amended: a call whose attempts all failed until the budget was used
\* up returns (it raises nothing) a Response that is not a success; its error
\* field is set when the last attempt raised an exception or got a response
\* that could not be read, and is unset when the last attempt was a 429 or
\* 5xx response that was read; a 429 or 5xx keeps its status code.
C10_TerminalFailureIsAValue ==
    BudgetExhausted =>
        LET final == http_trace[Len(http_trace)] IN
        /\ ~is_success(http_result)
        /\ (http_result.error # "None" <=> ~final.read)
        /\ (final.outcome = "exception" => http_result.status_code = 0)
        /\ (final.outcome = "429" => http_result.status_code = 429)
        /\ (final.outcome = "5xx" => http_result.status_code >= 500)

\* A call ended by a 5xx on its last attempt after a 429 and an exception.
C10_Witness ==
    /\ BudgetExhausted
    /\ http_trace[Len(http_trace)].outcome = "5xx"
    /\ http_trace[Len(http_trace)].read
    /\ http_trace[1].outcome = "429"
    /\ http_trace[2].outcome = "exception"

\* The attempts of the current call that sent a request.
SentAttempts == {i \in 1..Len(http_trace) : http_trace[i].sent}

RateLimitedThenSuccess ==
    /\ Returned
    /\ Len(http_trace) >= 2
    /\ http_trace[1].outcome = "429"
    /\ http_trace[1].retry_after # NoHeader
    /\ http_trace[2].outcome = "2xx"

\* C12 (as stated): a call whose first response is a 429 with Retry-After = r
\* and whose second response is a 200 makes exactly one retry, sends it no
\* earlier than r after the first attempt, and returns the second response.
C12_RateLimitRecovery ==
    RateLimitedThenSuccess =>
        /\ Len(http_trace) = 2
        /\ is_success(http_result)
        /\ http_trace[2].at - http_trace[1].at >= http_trace[1].retry_after

\* ------------------------------------------------- claims about the store
IsUpsert(c) == c.op \in {"upsert_post", "upsert_comment"}

ArgId(c) == IF c.op = "upsert_post" THEN c.arg.post_id ELSE c.arg.comment_id

TableOf(c) == IF c.op = "upsert_post" THEN posts ELSE comments

TableBefore(c) == IF c.op = "upsert_post" THEN c.posts ELSE c.comments

\* The last call upserted, without a persistence failure, an identity that
\* was stored and whose stored content_hash differs from the parsed one.
ChangedUpsert ==
    /\ IsUpsert(last)
    /\ last.fail = "none"
    /\ ArgId(last) \in DOMAIN TableBefore(last)
    /\ TableBefore(last)[ArgId(last)].content_hash # last.arg.content_hash

\* One entry was appended to the change log by the last call, holding the
\* old and the new snapshot of its identity.
OneEntryAppended ==
    /\ Len(change_log) = Len(last.change_log) + 1
    /\ SubSeq(change_log, 1, Len(last.change_log)) = last.change_log
    /\ LET e == change_log[Len(change_log)]
           old == TableBefore(last)[ArgId(last)]
       IN /\ e.content_id = ArgId(last)
          /\ e.content_type = (IF last.op = "upsert_post"
                               THEN "post" ELSE "comment")
          /\ e.old_value.content_hash = old.content_hash
          /\ e.old_value.score = old.score
          /\ e.new_value.content_hash = last.arg.content_hash
          /\ e.new_value.score = last.arg.score

IdentityFields == {"post_id", "comment_id"}

\* Columns the store manages itself or never rewrites after the insert.
KeptFields == {"first_seen", "created_utc", "fetched_at",
               "comment_ids", "comments_fetched_at"}

FetchStamps == {"fetched_at", "last_updated"}

SameContent(a, b) ==
    /\ DOMAIN a = DOMAIN b
    /\ \A f \in DOMAIN a \ FetchStamps : a[f] = b[f]

Untouched(before, after) ==
    /\ DOMAIN after = DOMAIN before
    /\ \A k \in DOMAIN before :
           [after[k] EXCEPT !.last_updated = 0]
               = [before[k] EXCEPT !.last_updated = 0]

\* The last two calls upserted the same content, the first one stored or
\* kept it, and the second one met no persistence failure.
SameContentTwice ==
    /\ IsUpsert(last)
    /\ prev.op = last.op
    /\ SameContent(prev.arg, last.arg)
    /\ prev.result.action \in {"inserted", "updated", "unchanged"}
    /\ last.fail = "none"

\* C2: when the same Post or Comment content is upserted twice in a row (no
\* persistence failure), the second call returns (false, "unchanged"),
\* appends no change-log entry, leaves every counter as it was, adds no
\* record and changes no stored field other than last_updated.
C2_Idempotence ==
    SameContentTwice =>
        /\ last.result = [changed |-> FALSE, action |-> "unchanged"]
        /\ change_log = last.change_log
        /\ stats = last.stats
        /\ Untouched(last.posts, posts)
        /\ Untouched(last.comments, comments)

\* The same comment content was upserted twice, first as an insert, and the
\* second call moved last_updated.
C2_Witness ==
    /\ SameContentTwice
    /\ last.op = "upsert_comment"
    /\ prev.result.action = "inserted"
    /\ comments[ArgId(last)].last_updated
           # last.comments[ArgId(last)].last_updated

RegistrationRolledBack ==
    /\ last.fail = "register"
    /\ last.arg.post_id \in DOMAIN posts
    /\ last.arg.comment_id \notin DOMAIN comments
    /\ posts = last.posts

\* ------------------------------------------------ claims about the scheduler
\* The listing requests of the crawl_incremental cycle that runs or ran last.
CycleRequests == IF sched.cycles > 0 THEN gen.requests ELSE << >>

\* C21 (as stated): every listing request crawl_incremental issues is for the
\* "new" listing, whatever sort mode is configured, and the crawl it runs has
\* resume = False, so it loads no stored CrawlState.
C21_IncrementalCrawlsNew ==
    /\ \A i \in 1..Len(CycleRequests) : CycleRequests[i].sort = "new"
    /\ (sched.cycles > 0 /\ crawl.pc # "idle") => ~crawl.resume

\* stop() has been called since start() began.
StopCalled == sched.stops > 0

AfterStop ==
    (StopCalled /\ SchedulerRunning) =>
        /\ sched'.tests = sched.tests
        /\ ~sched'.running
        /\ sched'.pc # sched.pc =>
              CASE sched.pc = "test" -> sched'.pc \in {"returned", "exited"}
                [] sched.pc = "call" -> sched'.pc \in {"in_cycle", "exited"}
                [] sched.pc = "in_cycle" ->
                       sched'.pc \in {"after_cycle", "exited"}
                [] sched.pc = "after_cycle" -> sched'.pc \in {"test", "exited"}
                [] sched.pc = "sleeping" -> sched'.pc \in {"test", "exited"}

\* Idle -> Running -> Idle: the flag is set exactly while start() is on the
\* stack and stop() has not been called.
FlagFollowsLoop ==
    /\ sched.pc \in {"idle", "returned", "exited"} => ~sched.running
    /\ SchedulerRunning => (sched.running <=> ~StopCalled)
    /\ sched.pc = "returned" => StopCalled

ExitedInCrawl == sched.pc = "exited" /\ sched.exit.in_crawl

\* C23 (as stated): when the interrupt signal arrives during a crawl that the
\* scheduler loop started, a CrawlState with the counts of posts and comments
\* processed so far is persisted before the process exits.
C23_InterruptCheckpoint ==
    ExitedInCrawl =>
        /\ Subreddit \in DOMAIN crawl_states
        /\ crawl_states[Subreddit].posts_crawled = sched.exit.posts_processed
        /\ crawl_states[Subreddit].comments_crawled
               = sched.exit.comments_processed

\* The cycle that ended last raised or returned a result with errors.
BadCycle ==
    /\ sched.log # << >>
    /\ sched.log[Len(sched.log)] \in {"raised", "errors"}

\* The loop's steps after a bad cycle while the flag is set: the end of the
\* cycle leads to "if self.running", from there to the sleep, from the sleep
\* to the loop test and from the test to the next crawl_incremental call;
\* start() returns from none of them.
LoopGoesOn ==
    /\ (sched.pc = "in_cycle" /\ sched'.pc # sched.pc) =>
           sched'.pc \in {"after_cycle", "exited"}
    /\ (BadCycle /\ sched.running /\ sched'.pc # sched.pc) =>
           CASE sched.pc = "after_cycle" -> sched'.pc \in {"sleeping", "exited"}
             [] sched.pc = "sleeping" -> sched'.pc \in {"test", "exited"}
             [] sched.pc = "test" -> sched'.pc \in {"call", "exited"}
             [] sched.pc = "call" ->
                    \/ sched'.pc = "exited"
                    \/ sched'.pc = "in_cycle" /\ sched'.cycles = sched.cycles + 1
             [] OTHER -> TRUE

\* C25: when a crawl_incremental cycle raises or returns a result with errors
\* while the running flag is set, start() does not terminate: it sleeps for
\* the interval and, unless the flag is cleared meanwhile, starts the next
\* cycle.
C25_BadCycleDoesNotKillLoop ==
    /\ [][LoopGoesOn]_vars
    /\ \A n \in 1..(MaxCrawls - 1) :
           (BadCycle /\ sched.pc = "after_cycle" /\ sched.cycles = n)
               ~> (sched.cycles = n + 1 \/ ~sched.running)

\* The first cycle raised, the second one is running with the flag set.
C25_Witness ==
    /\ sched.log = <<"raised">>
    /\ sched.pc = "in_cycle"
    /\ sched.cycles = 2
    /\ sched.running

\* ------------------------------------------- claims about forum-side deletion
\* The item the last step handled: its id, whether the forum showed it as
\* deleted or removed, and its table before and after the step.
ObservedId ==
    IF last.op = "upsert_post" THEN last.arg.post_id
    ELSE IF last.op = "upsert_comment" THEN last.arg.comment_id
    ELSE last.arg.id

ObservedDeleted ==
    CASE last.op = "upsert_post" ->
             is_deleted2(last.arg.author, last.arg.selftext)
      [] last.op = "upsert_comment" ->
             is_deleted2(last.arg.author, last.arg.body)
      [] last.op \in {"parse_post", "parse_comment"} -> TRUE
      [] OTHER -> FALSE

ObservedPost == last.op \in {"upsert_post", "parse_post"}

\* C26 (as stated): when a post or comment that is already stored is observed
\* as deleted or removed by a later crawl, the stored record is kept and its
\* deleted or removed flag becomes true.
C26_DeletionIsFlagged ==
    LET before == IF ObservedPost THEN last.posts ELSE last.comments
        after == IF ObservedPost THEN posts ELSE comments
    IN (ObservedDeleted /\ last.fail = "none" /\ ObservedId \in DOMAIN before)
        => /\ ObservedId \in DOMAIN after
           /\ after[ObservedId].is_deleted \/ after[ObservedId].is_removed

\* ------------------------------------------- claims about what the store keeps
\* The rows of a table stay: every stored id is still stored.
RowsKept(before, after) == \A id \in DOMAIN before : id \in DOMAIN after

\* The step is reset_crawl_state(src).
IsReset(src) == last'.op = "reset_crawl_state" /\ last'.arg.id = src

\* C27: no sequence of upsert_post, upsert_comment, save_crawl_state and
\* reset_crawl_state calls (the store operations a crawl is made of) removes
\* a stored post or comment or removes or modifies an existing change-log
\* entry; a CrawlState row disappears only in reset_crawl_state(source), and
\* that call deletes only the row of its source and touches nothing else.
C27_StoredContentOnlyGrows ==
    [][/\ RowsKept(posts, posts')
       /\ RowsKept(comments, comments')
       /\ IsPrefix(change_log, change_log')
       /\ \A src \in DOMAIN crawl_states :
             src \notin DOMAIN crawl_states' => IsReset(src)
       /\ \A src \in Sources :
             IsReset(src) =>
                 /\ DOMAIN crawl_states' = DOMAIN crawl_states \ {src}
                 /\ \A k \in DOMAIN crawl_states' :
                       crawl_states'[k] = crawl_states[k]
                 /\ posts' = posts
                 /\ comments' = comments
                 /\ change_log' = change_log]_vars

\* reset_crawl_state of one source deleted its row while the table held the
\* row of the other source as well.
C27_Witness ==
    /\ last.op = "reset_crawl_state"
    /\ last.result.changed
    /\ DOMAIN crawl_states # {}

\* --------------------------------------------- claims about the crawl state
\* crawl() has taken a post from the generator and has not returned yet.
PostTaken ==
    \/ crawl.pc \in {"upsert", "fetch_comments", "comments", "checkpoint"}
    \/ (crawl.pc # "idle" /\ crawl.posts_processed > 0)

\* C24 (as stated): once crawl() has passed the database connect and before
\* the first post is processed, a CrawlState row of the source is persisted,
\* so that a crash at any later point of the crawl leaves a row.
C24_CrawlStateFromStart == PostTaken => Subreddit \in DOMAIN crawl_states

\* ------------------------------------------- claims about malformed items
\* A child of a batch is well formed: an object whose "data" is an object
\* with an "edited" that is absent or a number.
WellFormedItem(child) ==
    /\ IsDict(child)
    /\ IsDict(child.data)
    /\ ~float_raises(Get(child.data, "edited", ""))

\* The ids of the well-formed top-level children of a batch.
WellFormedItemIds(children) ==
    {children[i].data.id :
        i \in {j \in DOMAIN children : WellFormedItem(children[j])}}

ReturnedPostIds == {listing_result.posts[i].post_id : i \in DOMAIN listing_result.posts}

ReturnedCommentIds == {page_result.comments[i].comment_id : i \in DOMAIN page_result.comments}

\* C28: a malformed item is dropped without aborting its batch: every
\* well-formed post of a parsed listing is among the posts returned, and
\* every well-formed top-level comment of a parsed comment listing is among
\* the comments returned.
C28_MalformedItemKeepsBatch ==
    /\ listing_result.done =>
          WellFormedItemIds(listing_response.children) \subseteq ReturnedPostIds
    /\ page_result.done =>
          WellFormedItemIds(comments_response[2].children) \subseteq ReturnedCommentIds
\* ------------------------------------------ claims about transport errors
\* The step in which a listing request of fetch_posts comes back with an
\* error.
ListingRequestFails == ~gen.error /\ gen'.error

\* C29: a transport failure ends the post sequence quietly: the step in
\* which a listing request fails ends the generator by a plain return, with
\* the posts yielded so far still yielded and the failed request the last
\* one; from then on the generator yields nothing, asks for nothing and
\* stays finished.
C29_TransportErrorEndsSequence ==
    [][/\ ListingRequestFails =>
            /\ gen'.pc = "done"
            /\ gen'.yielded = gen.yielded
            /\ gen'.requests = Append(gen.requests, gen_request(gen))
       /\ gen.error =>
            /\ gen'.pc = "done"
            /\ gen'.yielded = gen.yielded
            /\ gen'.requests = gen.requests]_vars

\* A request for a later page failed after posts of an earlier page were
\* yielded, with a cursor and a budget that would have let the loop go on.
C29_Witness ==
    /\ gen.error
    /\ gen.pc = "done"
    /\ gen.yielded # << >>
    /\ gen.after_token # 0
    /\ gen.posts_fetched < gen.max_posts
\* --------------------------------------- claims about comment registration
\* The ids registered against a post hold no id twice.
NoIdTwice(ids) == \A i, j \in 1..Len(ids) : ids[i] = ids[j] => i = j

\* The last call was an upsert_comment of a comment whose id was, before the
\* call, registered against its post.
UpsertOfRegistered ==
    /\ last.op = "upsert_comment"
    /\ last.arg.post_id \in DOMAIN last.posts
    /\ InSeq(last.arg.comment_id, last.posts[last.arg.post_id].comment_ids)

\* C30: the registration of comment ids is idempotent: the comment_ids of
\* every stored post hold each id at most once, and an upsert_comment of a
\* comment whose id is already registered leaves the comment_ids of every
\* post as they were.
C30_RegistrationIsIdempotent ==
    /\ \A p \in DOMAIN posts : NoIdTwice(posts[p].comment_ids)
    /\ UpsertOfRegistered =>
          \A p \in DOMAIN last.posts :
              /\ p \in DOMAIN posts
              /\ posts[p].comment_ids = last.posts[p].comment_ids

\* A registered comment was upserted again and the call went through.
C30_Witness ==
    /\ UpsertOfRegistered
    /\ last.fail = "none"
    /\ last.result.action \in {"updated", "unchanged"}
    /\ posts[last.arg.post_id].comment_ids # << >>
\* ------------------------------------------ claims about crawl invocations
\* The number of store calls of the running crawl that were of this kind and
\* returned this action.
Performed(kind, action) ==
    Cardinality({i \in 1..Len(crawl.events) :
                    /\ crawl.events[i].kind = kind
                    /\ crawl.events[i].action = action})

\* C31: the counters do not leak across crawl invocations: the CrawlResult a
\* crawl() returns reports as posts_inserted, posts_updated,
\* comments_inserted and comments_updated the number of upsert calls of that
\* invocation that returned "inserted" and "updated", whatever the earlier
\* invocations on the same crawler did.
C31_CountersDoNotLeak ==
    [][(crawl.pc = "after_try" /\ crawl_result'.status = "returned") =>
          /\ crawl_result'.posts_inserted =
                 Performed("upsert_post", "inserted")
          /\ crawl_result'.posts_updated =
                 Performed("upsert_post", "updated")
          /\ crawl_result'.comments_inserted =
                 Performed("upsert_comment", "inserted")
          /\ crawl_result'.comments_updated =
                 Performed("upsert_comment", "updated")]_vars

\* A second crawl has returned: it upserted posts, none of them new, so the
\* posts it found stored were inserted by the first crawl, and it reports no
\* insert.
C31_Witness ==
    /\ ncrawls = 2
    /\ crawl.pc = "idle"
    /\ crawl_result.status = "returned"
    /\ crawl_result.posts_fetched > 0
    /\ crawl_result.posts_inserted = 0
    /\ crawl_result.errors = << >>
    /\ posts # EmptyTable
\* --------------------------------------------------- claims about resume
\* Both crawlers are past the try block of their crawl: the variables hold
\* the one that ran with resume = False, twin.other the one that ran with
\* resume = True.
BothCrawled == twin.phase = "switched" /\ crawl.pc = "after_try"

\* C32: resume is informational: from the same stored posts, comments and
\* change log, against the same server and with the same max_posts and
\* fetch_comments, crawl(resume = True) and crawl(resume = False) issue the
\* same listing requests and the same comment requests, make the same store
\* calls with the same outcomes, and leave the same posts, comments and
\* change log, whatever CrawlState was stored for the source.
C32_ResumeIsInformational ==
    BothCrawled =>
        /\ twin.other.crawl.resume /\ ~crawl.resume
        /\ twin.other.gen.requests = gen.requests
        /\ twin.other.gen.yielded = gen.yielded
        /\ twin.other.crawl.comment_requests = crawl.comment_requests
        /\ twin.other.crawl.events = crawl.events
        /\ twin.other.posts = posts
        /\ twin.other.comments = comments
        /\ twin.other.change_log = change_log

\* Both crawled; the resuming crawl had loaded the CrawlState an earlier
\* crawl stored, the other one built a new one; the crawls sent requests and
\* changed a stored post.
C32_Witness ==
    /\ BothCrawled
    /\ twin.other.crawl.crawl_state.started_at < crawl.crawl_state.started_at
    /\ gen.requests # << >>
    /\ Len(change_log) > crawl.before.logged
\* ----------------------------------------- claims about the request count
\* C33: fetch_posts(maxCount) issues at most maxCount listing requests,
\* whatever the server answers, a cursor on every page or the same cursor
\* again included.
C33_AtMostMaxCountRequests == Len(gen.requests) <= gen.arg_max_posts
\* ------------------------------------------- claims about stored freshness
\* The last call was an upsert_post of a post that was stored before it, and
\* it succeeded.
UpsertOfStoredPost ==
    /\ last.op = "upsert_post"
    /\ last.arg.post_id \in DOMAIN last.posts
    /\ last.result.action \in {"updated", "unchanged"}

\* C34: the stored record is fresh after every upsert: after a successful
\* upsert_post of a post that was already stored, the stored num_comments
\* and status flags (locked, is_deleted, is_removed) are those of the Post
\* just upserted, also when its title, selftext and score are the stored
\* ones.
C34_StoredRecordIsFresh ==
    UpsertOfStoredPost =>
        LET row == posts[last.arg.post_id] IN
        /\ row.num_comments = last.arg.num_comments
        /\ row.locked = last.arg.locked
        /\ row.is_deleted = last.arg.is_deleted
        /\ row.is_removed = last.arg.is_removed
\* ------------------------------------- claims about comment-tree completeness
\* C35: the comment tree is parsed completely: every "t1" node of the payload
\* that is no "more" stub, is itself not deleted or removed and lies at a
\* depth of at most max_depth is among the Comments parse_comments_page
\* returns, also when a comment it is nested under was dropped as deleted or
\* removed.
C35_CommentTreeCompleteness ==
    page_result.done =>
        \A n \in PayloadNodes :
            (n.kind = "t1" /\ ~n.more /\ ~n.removed /\ n.level <= depth_arg)
                => \E c \in Produced : c.comment_id = n.id
\* --------------------------------------- claims about registered comments
\* C36: every stored comment is registered on its post: for every stored
\* comment whose post is stored, the comment's id is in that post's
\* comment_ids.
C36_StoredCommentIsRegistered ==
    \A c \in DOMAIN comments :
        comments[c].post_id \in DOMAIN posts =>
            InSeq(c, posts[comments[c].post_id].comment_ids)

\* ------------------------------------------- claims about deletion flags
\* The authors and texts a raw post or comment can carry.
Authors == {"alice", "[deleted]", "[removed]"}

Texts == {"x", "", "[deleted]", "[removed]"}

\* Post listings of one child over these authors and selftexts.
FlagListings ==
    {[children |->
         <<[kind |-> "t3",
            data |-> [id |-> "f1", author |-> a, title |-> "t",
                      selftext |-> x, score |-> 1, num_comments |-> 0,
                      locked |-> FALSE, created_utc |-> 1]]>>,
      after |-> 0] :
        a \in Authors, x \in Texts}

\* Comment pages of one top-level comment over these authors and bodies.
FlagResponses ==
    {<<[children |-> <<LiveChild(PagePost)>>],
       [children |->
           <<[kind |-> "t1",
              data |-> [id |-> "g1", author |-> a, body |-> b, score |-> 1,
                        parent_id |-> "t3_" \o PagePost, replies |-> << >>,
                        created_utc |-> 1]]>>]>> :
        a \in Authors, b \in Texts}

InitFlags ==
    /\ CrawlIdle
    /\ include_deleted \in BOOLEAN
    /\ StoreEmpty
    /\ twin = NoTwin
    /\ SchedulerIdle
    /\ HttpIdle
    /\ FetchIdle
    /\ comments_response \in FlagResponses
    /\ depth_arg = comment_depth
    /\ page_result = NotParsed
    /\ listing_response \in FlagListings
    /\ listing_result = ListingNotParsed

NextFlags == ParsePostListing \/ ParseCommentsPage

SpecFlags == InitFlags /\ [][NextFlags]_vars

\* The raw posts and comments of the payloads that the parser drops as
\* deleted or removed when include_deleted is false.
DroppedPosts ==
    {raw \in {listing_response.children[i].data :
                 i \in DOMAIN listing_response.children} :
        /\ is_deleted2(raw.author, raw.selftext)
        /\ parse_post(raw, FALSE, now) = << >>}

DroppedComments ==
    {raw \in {comments_response[2].children[i].data :
                 i \in DOMAIN comments_response[2].children} :
        /\ is_deleted2(raw.author, raw.body)
        /\ parse_comment(raw, PagePost, Subreddit, 0, FALSE, now) = << >>}

\* The records parse_post_listing and parse_comments_page returned.
ReturnedPosts ==
    {listing_result.posts[i] : i \in DOMAIN listing_result.posts}

ReturnedComments ==
    {page_result.comments[i] : i \in DOMAIN page_result.comments}

\* C37: deletion flags agree with the drop rule: a post or comment that the
\* parser drops as deleted or removed when include_deleted is false is
\* returned, when include_deleted is true, as a record with is_deleted or
\* is_removed set.
C37_FlagsAgreeWithDropRule ==
    include_deleted =>
        /\ listing_result.done =>
               \A raw \in DroppedPosts : \A p \in ReturnedPosts :
                   p.post_id = raw.id => (p.is_deleted \/ p.is_removed)
        /\ page_result.done =>
               \A raw \in DroppedComments : \A c \in ReturnedComments :
                   c.comment_id = raw.id => (c.is_deleted \/ c.is_removed)

\* ---------------------------------------- claims about transport counters
\* C38: transport statistics are consistent: once every top-level request()
\* call made since the counters were zero has returned, successful + failed
\* equals the number of those calls, however many retries a call needed.
C38_EachCallCountedOnce ==
    http_pc \in {"idle", "returned"} =>
        http_stats.successful + http_stats.failed = http_calls

\* ------------------------------------------ claims about the change counter
\* C39: the changes_logged counter matches the change log: after any
\* sequence of upserts on a database whose counters started at zero, also
\* ones that fail and are rolled back, changes_logged equals the number of
\* entries the change log holds.
C39_CounterMatchesChangeLog == stats.changes_logged = Len(change_log)
====
